---- MODULE Spec2Model ----
(* NewsAgent: the digest pipeline of lambda/hello-world.ts.                 *)
(* Strings are sequences of one-character strings, so that the text         *)
(* functions (split, trim, replace) are computed and not assumed.           *)
EXTENDS Integers, Sequences, FiniteSets, TLC

VARIABLES
  text, maxChunkSize, chunks, cpc,   \* one call of splitTextIntoChunks
  topStoriesData, failedIds, hnLimit, \* one call of getTopHackerNewsStories: the ranked
                                     \* list served, the ids whose fetch fails, the limit
  page, articleContent,              \* one call of fetchArticleContent: the page served
                                     \* and what the function returned
  pc,               \* the stage the handler is in
  runs,             \* invocations so far; also the clock (Date.now()) of the run
  trigger,          \* event.source
  date,             \* the date part of currentTime
  topStories,       \* result of getTopHackerNewsStories
  trendingRepos,    \* result of getTopGitHubTrending
  idx,              \* items of the two loops processed so far
  stories,          \* the StoryInfo list of the run
  combinedAudioUrl,
  audioBuffers,     \* the buffers generateCombinedAudio concatenates
  synthFailed,      \* the synthesis calls of generateCombinedAudio that gave no buffer
  combinedUpload,   \* the put of the combined track: "none" (not attempted), "ok", "failed"
  store,            \* the DynamoDB table: a set of items, one per id
  bucket,           \* the S3 bucket: the keys written
  emailSent,        \* the local flag of the handler
  mailResult,       \* outcome of the SES call of the run
  response,         \* what the handler returned
  sourceFailed,     \* the sources whose top-level fetch failed in this run
  digestWrites,     \* the <<date, run>> of every digest put that succeeded
  failures,         \* per item of the run: the step of its enrichment that failed
  synthRequests,    \* the requests of the run to the speech synthesizer, in order
  calls             \* the calls of the run to the table and to the mail service, in order

chunkVars == <<text, maxChunkSize, chunks, cpc>>

fetchVars == <<topStoriesData, failedIds, hnLimit, page, articleContent>>

runVars == <<pc, runs, trigger, date, topStories, trendingRepos, idx, stories,
             combinedAudioUrl, audioBuffers, synthFailed, combinedUpload, store, bucket,
             emailSent, mailResult, response, sourceFailed, digestWrites,
             failures, synthRequests, calls>>

vars == <<text, maxChunkSize, chunks, cpc, topStoriesData, failedIds, hnLimit,
          page, articleContent, pc, runs, trigger, date, topStories,
          trendingRepos, idx, stories, combinedAudioUrl, audioBuffers,
          synthFailed, combinedUpload, store, bucket, emailSent, mailResult, response,
          sourceFailed, digestWrites, failures, synthRequests, calls>>

(* ---------------------------------------------------------------------- *)
(* Bounds                                                                   *)
(* ---------------------------------------------------------------------- *)
MaxTextLen == 6

MaxChunk == 5

MaxRuns == 2

MaxDate == 2

MaxRanked == 2

MaxRepos == 2

MaxAudioStories == 2

(* the longest summary handed to the audio functions (the ceiling is 12) *)
MaxSummaryLen == 14

(* getTopHackerNewsStories alone: the longest ranked list and the largest limit *)
MaxFetchRanked == 3

MaxFetchLimit == 3

(* the longest list handed to saveDailyRecommendations alone (three batches) *)
MaxSaveItems == 5

(* the longest page served to fetchArticleContent alone *)
MaxPageLen == 6

(* the most stories handed to the loop of the handler alone *)
MaxItemStories == 2

(* ---------------------------------------------------------------------- *)
(* Text helpers (String.prototype.split / trim as the code uses them)       *)
(* ---------------------------------------------------------------------- *)
SPACE == " "

NEWLINE == "\n"

IsTerminator(c) == c \in {".", "!", "?"}

IsWhitespace(c) == c \in {SPACE, NEWLINE}

RECURSIVE TrimLeft(_)
TrimLeft(s) ==
  IF s = <<>> THEN <<>>
  ELSE IF IsWhitespace(Head(s)) THEN TrimLeft(Tail(s)) ELSE s

RECURSIVE TrimRight(_)
TrimRight(s) ==
  IF s = <<>> THEN <<>>
  ELSE IF IsWhitespace(s[Len(s)]) THEN TrimRight(SubSeq(s, 1, Len(s) - 1)) ELSE s

Trim(s) == TrimRight(TrimLeft(s))

(* text.split(/[.!?]+/): a run of terminators is one separator; the pieces  *)
(* before, between and after the separators are all returned, empty or not. *)
RECURSIVE SplitLoop(_, _, _, _)
SplitLoop(s, i, piece, pieces) ==
  IF i > Len(s) THEN Append(pieces, piece)
  ELSE IF IsTerminator(s[i])
       THEN IF i < Len(s) /\ IsTerminator(s[i + 1])
            THEN SplitLoop(s, i + 1, piece, pieces)
            ELSE SplitLoop(s, i + 1, <<>>, Append(pieces, piece))
       ELSE SplitLoop(s, i + 1, Append(piece, s[i]), pieces)

SplitSentences(s) == SplitLoop(s, 1, <<>>, <<>>)

NonEmptyTrim(s) == Len(Trim(s)) > 0

(* ChunkLoop with the flush on overflow forgotten: the running chunk is     *)
(* overwritten by the next sentence instead of being saved first.           *)
RECURSIVE ChunkLoopNoFlush(_, _, _, _, _)
ChunkLoopNoFlush(sentences, i, currentChunk, acc, max) ==
  IF i > Len(sentences)
  THEN IF Trim(currentChunk) # <<>> THEN Append(acc, Trim(currentChunk)) ELSE acc
  ELSE LET trimmedSentence == Trim(sentences[i])
           sentenceWithPunctuation == Append(trimmedSentence, ".")
       IN IF trimmedSentence = <<>>
          THEN ChunkLoopNoFlush(sentences, i + 1, currentChunk, acc, max)
          ELSE IF Len(currentChunk) + Len(sentenceWithPunctuation) + 1 > max
               THEN ChunkLoopNoFlush(sentences, i + 1, sentenceWithPunctuation, acc, max)
               ELSE ChunkLoopNoFlush(sentences, i + 1,
                              IF currentChunk # <<>>
                              THEN currentChunk \o <<SPACE>> \o sentenceWithPunctuation
                              ELSE sentenceWithPunctuation,
                              acc, max)

(* the loop of splitTextIntoChunks over the filtered sentences *)
RECURSIVE ChunkLoop(_, _, _, _, _)
ChunkLoop(sentences, i, currentChunk, acc, max) ==
  IF i > Len(sentences)
  THEN IF Trim(currentChunk) # <<>> THEN Append(acc, Trim(currentChunk)) ELSE acc
  ELSE LET trimmedSentence == Trim(sentences[i])
           sentenceWithPunctuation == Append(trimmedSentence, ".")
       IN IF trimmedSentence = <<>>
          THEN ChunkLoop(sentences, i + 1, currentChunk, acc, max)
          ELSE IF Len(currentChunk) + Len(sentenceWithPunctuation) + 1 > max
               THEN ChunkLoop(sentences, i + 1, sentenceWithPunctuation,
                              IF Trim(currentChunk) # <<>>
                              THEN Append(acc, Trim(currentChunk)) ELSE acc,
                              max)
               ELSE ChunkLoop(sentences, i + 1,
                              IF currentChunk # <<>>
                              THEN currentChunk \o <<SPACE>> \o sentenceWithPunctuation
                              ELSE sentenceWithPunctuation,
                              acc, max)

splitTextIntoChunks(t, max) ==
  IF Len(t) <= max THEN <<t>>
  ELSE LET sentences == SelectSeq(SplitSentences(t), NonEmptyTrim)
           result == ChunkLoop(sentences, 1, <<>>, <<>>, max)
       IN IF Len(result) > 0 THEN result ELSE <<t>>

(* ---------------------------------------------------------------------- *)
(* Cleaning of a summary before synthesis (the four replace calls + trim)   *)
(* ---------------------------------------------------------------------- *)
RECURSIVE SkipWhile(_, _, _)
SkipWhile(s, i, c) ==
  IF i <= Len(s) /\ s[i] = c THEN SkipWhile(s, i + 1, c) ELSE i

RECURSIVE SkipWhitespace(_, _)
SkipWhitespace(s, i) ==
  IF i <= Len(s) /\ IsWhitespace(s[i]) THEN SkipWhitespace(s, i + 1) ELSE i

(* .replace(/^#+\s*/gm, ''): at the start of a line, a run of # and the     *)
(* white space after it are removed                                         *)
RECURSIVE StripHeaders(_, _)
StripHeaders(s, i) ==
  IF i > Len(s) THEN <<>>
  ELSE IF (i = 1 \/ s[i - 1] = NEWLINE) /\ s[i] = "#"
       THEN StripHeaders(s, SkipWhitespace(s, SkipWhile(s, i, "#")))
       ELSE <<s[i]>> \o StripHeaders(s, i + 1)

IsMarkAt(s, i, w) == i + w - 1 <= Len(s) /\ \A k \in i..(i + w - 1) : s[k] = "*"

(* the closing marks of the shortest match that opens at i: the first       *)
(* position j >= i + w on the same line where w stars stand, or 0           *)
ClosingMark(s, i, w) ==
  LET cands == {j \in (i + w)..Len(s) :
                  /\ IsMarkAt(s, j, w)
                  /\ \A k \in (i + w)..(j - 1) : s[k] # NEWLINE}
  IN IF cands = {} THEN 0 ELSE CHOOSE j \in cands : \A k \in cands : j <= k

(* .replace(/\*\*(.*?)\*\*/g, '$1') for w = 2, .replace(/\*(.*?)\*/g, '$1') *)
(* for w = 1                                                                *)
RECURSIVE StripMarks(_, _, _)
StripMarks(s, i, w) ==
  IF i > Len(s) THEN <<>>
  ELSE IF IsMarkAt(s, i, w) /\ ClosingMark(s, i, w) # 0
       THEN SubSeq(s, i + w, ClosingMark(s, i, w) - 1)
              \o StripMarks(s, ClosingMark(s, i, w) + w, w)
       ELSE <<s[i]>> \o StripMarks(s, i + 1, w)

(* .replace(/\n+/g, ' ') *)
RECURSIVE JoinLines(_, _)
JoinLines(s, i) ==
  IF i > Len(s) THEN <<>>
  ELSE IF s[i] = NEWLINE
       THEN <<SPACE>> \o JoinLines(s, SkipWhile(s, i, NEWLINE))
       ELSE <<s[i]>> \o JoinLines(s, i + 1)

cleanSummary(summary) ==
  Trim(JoinLines(StripMarks(StripMarks(StripHeaders(summary, 1), 1, 2), 1, 1), 1))

(* ---------------------------------------------------------------------- *)
(* Audio assembly: generateSingleAudioBuffer and generateCombinedAudio      *)
(* ---------------------------------------------------------------------- *)
(* Lengths are scaled down; the order 2500 < 2800 < 2800 + 3 <= 3000 of the *)
(* code's numbers is kept: CombinedChunkSize < TruncateAt,                  *)
(* TruncateAt + 3 <= PollyLimit.                                            *)
CombinedChunkSize == 8

TruncateAt == 9

PollyLimit == 12

UNDEFINED == <<"undefined">>

SUMMARY_UNAVAILABLE == <<"Summary unavailable">>

ELLIPSIS == <<".", ".", ".">>

(* text.length > 2800 ? text.substring(0, 2800) + "..." : text *)
truncatedText(t) ==
  IF Len(t) > TruncateAt THEN SubSeq(t, 1, TruncateAt) \o ELLIPSIS ELSE t

(* One narration segment handed to generateSingleAudioBuffer. kind and      *)
(* index stand for the fixed wording of the line ("Story <index>: ",        *)
(* "Next story.", the intro and the outro); text is the title of a title    *)
(* line and the chunk of a chunk line.                                      *)
Segment(kind, index, ord, t) == [kind |-> kind, index |-> index, ord |-> ord, text |-> t]

(* the synthesizer rejects a request whose text is above its ceiling *)
PollyAccepts(t) == Len(t) <= PollyLimit

(* The state of one generateCombinedAudio call: n synthesis calls made so   *)
(* far, the requests sent, and the buffers pushed. failed is the set of     *)
(* call numbers at which the synthesizer throws or returns no audio stream. *)
(* generateSingleAudioBuffer + "if (buffer) audioBuffers.push(buffer)"     *)
generateSingleAudioBuffer(st, seg, failed) ==
  LET sent == [seg EXCEPT !.text = truncatedText(seg.text)]
      gotStream == (st.n + 1) \notin failed /\ PollyAccepts(sent.text)
  IN [n |-> st.n + 1,
      requests |-> Append(st.requests, sent),
      audioBuffers |-> IF gotStream THEN Append(st.audioBuffers, sent)
                       ELSE st.audioBuffers]

RECURSIVE ChunkAudioLoop(_, _, _, _, _)
ChunkAudioLoop(st, index, summaryChunks, k, failed) ==
  IF k > Len(summaryChunks) THEN st
  ELSE ChunkAudioLoop(generateSingleAudioBuffer(st, Segment("chunk", index, k, summaryChunks[k]), failed),
                      index, summaryChunks, k + 1, failed)

(* the pause between stories with the bound of the loop off by one: the     *)
(* transition line is spoken after the last story too                       *)
PauseAfterEvery(st, list, index, failed) ==
  IF index < Len(list) + 1
  THEN generateSingleAudioBuffer(st, Segment("transition", index, 0, <<>>), failed)
  ELSE st

(* "if (index < stories.length - 1)" with the 0-based index of the code     *)
PauseBetweenStories(st, list, index, failed) ==
  IF index < Len(list)
  THEN generateSingleAudioBuffer(st, Segment("transition", index, 0, <<>>), failed)
  ELSE st

RECURSIVE StoryAudioLoop(_, _, _, _)
StoryAudioLoop(st, list, index, failed) ==
  IF index > Len(list) THEN st
  ELSE IF list[index].summary # UNDEFINED /\ list[index].summary # <<>>
       THEN LET afterTitle == generateSingleAudioBuffer(st, Segment("title", index, 0, list[index].title), failed)
                summaryChunks == splitTextIntoChunks(cleanSummary(list[index].summary),
                                                     CombinedChunkSize)
                afterChunks == ChunkAudioLoop(afterTitle, index, summaryChunks, 1, failed)
            IN StoryAudioLoop(PauseBetweenStories(afterChunks, list, index, failed),
                              list, index + 1, failed)
       ELSE StoryAudioLoop(st, list, index + 1, failed)

(* lines 551-599: the buffers in the order they are pushed *)
CombinedAudioState(list, failed) ==
  LET st0 == [n |-> 0, requests |-> <<>>, audioBuffers |-> <<>>]
      afterIntro == generateSingleAudioBuffer(st0, Segment("intro", 0, 0, <<>>), failed)
      afterStories == StoryAudioLoop(afterIntro, list, 1, failed)
  IN generateSingleAudioBuffer(afterStories, Segment("outro", Len(list) + 1, 0, <<>>), failed)

(* the number of synthesis calls one generateCombinedAudio makes *)
SynthCalls(list) == CombinedAudioState(list, {}).n

(* ---------------------------------------------------------------------- *)
(* Sources                                                                  *)
(* ---------------------------------------------------------------------- *)
HNLimit == 1

GHLimit == 1

Digit(i) == <<"1", "2", "3", "4", "5", "6", "7", "8", "9">>[i]

(* sample titles: the first two Hacker News titles differ only in case and  *)
(* in a non-alphanumeric character                                          *)
HNTitle(r) ==
  IF r = 1 THEN <<"A", " ", "b">>
  ELSE IF r = 2 THEN <<"a", "-", "b">>
  ELSE <<"c", Digit(r)>>

GHTitle(i) == <<"o", "/", Digit(i)>>

(* what the item endpoint can return for the id at rank r *)
HNEntries(r) ==
  {[id |-> r, title |-> HNTitle(r), type |-> t, hasUrl |-> u] :
     t \in {"story", "job"}, u \in BOOLEAN}

RankedLists ==
  UNION {{l \in [1..n -> UNION {HNEntries(r) : r \in 1..n}] :
            \A r \in 1..n : l[r] \in HNEntries(r)} : n \in 0..MaxRanked}

Min(a, b) == IF a < b THEN a ELSE b

(* lines 284-302: the ids are cut to the first limit entries, then each is  *)
(* resolved; an id whose fetch fails or that does not qualify is skipped    *)
RECURSIVE HNLoop(_, _, _, _, _)
HNLoop(ranked, itemFails, limit, i, acc) ==
  IF i > Min(limit, Len(ranked)) THEN acc
  ELSE IF i \notin itemFails /\ ranked[i].type = "story" /\ ranked[i].hasUrl
       THEN HNLoop(ranked, itemFails, limit, i + 1, Append(acc, ranked[i]))
       ELSE HNLoop(ranked, itemFails, limit, i + 1, acc)

(* getTopHackerNewsStories: a failure of the top-level list is rethrown     *)
getTopHackerNewsStories(listOk, ranked, itemFails, limit) ==
  IF listOk
  THEN [threw |-> FALSE, items |-> HNLoop(ranked, itemFails, limit, 1, <<>>)]
  ELSE [threw |-> TRUE, items |-> <<>>]

(* getTopGitHubTrending: every failure is turned into the empty list        *)
getTopGitHubTrending(searchOk, n, limit) ==
  IF searchOk /\ n > 0
  THEN [threw |-> FALSE,
        items |-> [i \in 1..Min(n, limit) |-> [id |-> i, full_name |-> GHTitle(i)]]]
  ELSE [threw |-> FALSE, items |-> <<>>]

(* ---------------------------------------------------------------------- *)
(* Per-item processing                                                      *)
(* ---------------------------------------------------------------------- *)
SlugLen == 3

Lower(c) == IF c = "A" THEN "a" ELSE IF c = "B" THEN "b" ELSE c

IsAlnum(c) == c \in {"a", "b", "c", "o", "r", "1", "2", "3", "4", "5", "6", "7", "8", "9"}

(* .replace(/[^a-z0-9]+/g, '-') *)
RECURSIVE Dashes(_, _)
Dashes(s, i) ==
  IF i > Len(s) THEN <<>>
  ELSE IF IsAlnum(s[i]) THEN <<s[i]>> \o Dashes(s, i + 1)
       ELSE IF i > 1 /\ ~IsAlnum(s[i - 1]) THEN Dashes(s, i + 1)
            ELSE <<"-">> \o Dashes(s, i + 1)

titleSlug(title) ==
  LET dashed == Dashes([i \in 1..Len(title) |-> Lower(title[i])], 1)
  IN SubSeq(dashed, 1, Min(SlugLen, Len(dashed)))

(* what the summarizer may answer (after trim) *)
BedrockTexts ==
  { <<"a", ".">>,
    <<"*", "*", "a", "*", "*", ".", " ", "b", "!", " ", "c", " ", "d", ".">> }

(* the template of processGitHubRepository, line 389 *)
repoSummary(full_name) ==
  <<"#", " ", "S", NEWLINE>> \o full_name \o <<".", NEWLINE, "#", " ", "K", NEWLINE, "g", ".">>

(* the outcome of one generateAudio call: "audio" when the synthesizer gave *)
(* no audio or the object could not be put, "none" when both succeeded      *)
audioFailure(speechText, synthOk, uploadOk) ==
  IF synthOk /\ PollyAccepts(speechText) /\ uploadOk THEN "none" ELSE "audio"

(* generateAudio with the catch block missing: a failure is thrown on       *)
generateAudioRethrows(title, summary, d, synthOk, uploadOk) ==
  LET speechText == cleanSummary(summary)
      filename == <<"audio", d, titleSlug(title)>>
      failure == audioFailure(speechText, synthOk, uploadOk)
  IN IF failure = "none"
     THEN [threw |-> FALSE, audioUrl |-> filename, written |-> {filename},
           request |-> speechText, failure |-> failure]
     ELSE [threw |-> TRUE, audioUrl |-> UNDEFINED, written |-> {},
           request |-> speechText, failure |-> failure]

(* generateAudio: undefined on any failure; the object key is written only  *)
(* when both the synthesis and the upload succeed; the cleaned summary is   *)
(* the Text of the request, whatever its length                             *)
generateAudio(title, summary, d, synthOk, uploadOk) ==
  LET speechText == cleanSummary(summary)
      filename == <<"audio", d, titleSlug(title)>>
      failure == audioFailure(speechText, synthOk, uploadOk)
  IN IF failure = "none"
     THEN [threw |-> FALSE, audioUrl |-> filename, written |-> {filename},
           request |-> speechText, failure |-> failure]
     ELSE [threw |-> FALSE, audioUrl |-> UNDEFINED, written |-> {},
           request |-> speechText, failure |-> failure]

(* ---------------------------------------------------------------------- *)
(* fetchArticleContent                                                      *)
(* ---------------------------------------------------------------------- *)
(* A page is a sequence of characters and of markup elements: SCRIPT and    *)
(* STYLE stand for a whole <script>...</script> or <style>...</style>        *)
(* block, TAG for any other tag. The budget of 4000 characters is scaled.   *)
SCRIPT == "<script>"

STYLE == "<style>"

TAG == "<tag>"

ContentLimit == 4

UNABLE_TO_FETCH == <<"Unable to fetch article content">>

(* the two replace calls of lines 409-410: the blocks are removed *)
StripBlocks(content) == SelectSeq(content, LAMBDA c : c \notin {SCRIPT, STYLE})

(* .replace(/<[^>]*>/g, ' ') *)
StripTags(content) == [i \in 1..Len(content) |-> IF content[i] = TAG THEN SPACE ELSE content[i]]

(* .replace(/\s+/g, ' ') *)
RECURSIVE NormalizeWhitespace(_, _)
NormalizeWhitespace(s, i) ==
  IF i > Len(s) THEN <<>>
  ELSE IF IsWhitespace(s[i])
       THEN IF i > 1 /\ IsWhitespace(s[i - 1])
            THEN NormalizeWhitespace(s, i + 1)
            ELSE <<SPACE>> \o NormalizeWhitespace(s, i + 1)
       ELSE <<s[i]>> \o NormalizeWhitespace(s, i + 1)

textContent(content) == Trim(NormalizeWhitespace(StripTags(StripBlocks(content)), 1))

(* fetchArticleContent returning the extracted text whole *)
fetchArticleContentUncut(getOk, content) ==
  IF getOk
  THEN [threw |-> FALSE, content |-> textContent(content)]
  ELSE [threw |-> FALSE, content |-> UNABLE_TO_FETCH]

(* fetchArticleContent: the first 4000 characters of the extracted text,    *)
(* with "..." appended when it was longer; the sentinel when httpGet or the *)
(* extraction throws                                                        *)
fetchArticleContent(getOk, content) ==
  IF getOk
  THEN LET t == textContent(content)
       IN [threw |-> FALSE,
           content |-> IF Len(t) > ContentLimit
                       THEN SubSeq(t, 1, ContentLimit) \o ELLIPSIS ELSE t]
  ELSE [threw |-> FALSE, content |-> UNABLE_TO_FETCH]

Outcomes ==
  [extractOk : BOOLEAN, summarizeOk : BOOLEAN, summaryText : BedrockTexts,
   synthOk : BOOLEAN, uploadOk : BOOLEAN]

basicInfo(title, source) ==
  [title |-> title, source |-> source, summary |-> UNDEFINED, audioUrl |-> UNDEFINED]

(* processStoryWithSummary without its try block: a failed extraction or    *)
(* summarization is thrown to the loop of the handler                       *)
processStoryWithSummaryNoCatch(story, d, o) ==
  LET info == basicInfo(story.title, "hacker-news")
  IN IF ~(story.hasUrl /\ o.extractOk)
     THEN [threw |-> TRUE, info |-> info, written |-> {}, requests |-> <<>>,
           failure |-> "extract"]
     ELSE IF ~o.summarizeOk
          THEN [threw |-> TRUE, info |-> info, written |-> {}, requests |-> <<>>,
                failure |-> "summarize"]
          ELSE LET summary == Trim(o.summaryText)
                   a == generateAudio(story.title, summary, d, o.synthOk, o.uploadOk)
               IN [threw |-> FALSE,
                   info |-> [info EXCEPT !.summary = summary, !.audioUrl = a.audioUrl],
                   written |-> a.written,
                   requests |-> <<a.request>>, failure |-> a.failure]

(* processStoryWithSummary: extraction, summarization and synthesis sit in  *)
(* one try block whose catch keeps the item. requests: what was sent to the *)
(* synthesizer; failure: the step that failed, "none" if none did           *)
processStoryWithSummary(story, d, o) ==
  LET info == basicInfo(story.title, "hacker-news")
  IN IF story.hasUrl /\ o.extractOk
     THEN LET summary == IF o.summarizeOk THEN Trim(o.summaryText) ELSE SUMMARY_UNAVAILABLE
              withSummary == [info EXCEPT !.summary = summary]
          IN IF summary # <<>> /\ summary # SUMMARY_UNAVAILABLE
             THEN LET a == generateAudio(story.title, summary, d, o.synthOk, o.uploadOk)
                  IN IF a.threw
                     THEN [threw |-> FALSE, info |-> withSummary, written |-> {},
                           requests |-> <<a.request>>, failure |-> a.failure]
                     ELSE [threw |-> FALSE,
                           info |-> [withSummary EXCEPT !.audioUrl = a.audioUrl],
                           written |-> a.written,
                           requests |-> <<a.request>>, failure |-> a.failure]
             ELSE [threw |-> FALSE, info |-> withSummary, written |-> {},
                   requests |-> <<>>,
                   failure |-> IF o.summarizeOk THEN "none" ELSE "summarize"]
     ELSE [threw |-> FALSE, info |-> info, written |-> {},
           requests |-> <<>>, failure |-> IF story.hasUrl THEN "extract" ELSE "none"]

(* processGitHubRepository: no try block of its own *)
processGitHubRepository(repo, d, o) ==
  LET info == [basicInfo(repo.full_name, "github-trending")
                 EXCEPT !.summary = repoSummary(repo.full_name)]
      a == generateAudio(info.title, info.summary, d, o.synthOk, o.uploadOk)
  IN IF a.threw
     THEN [threw |-> TRUE, info |-> info, written |-> {},
           requests |-> <<a.request>>, failure |-> a.failure]
     ELSE [threw |-> FALSE, info |-> [info EXCEPT !.audioUrl = a.audioUrl],
           written |-> a.written,
           requests |-> <<a.request>>, failure |-> a.failure]

(* generateCombinedAudio with the put not awaited: its failure is not seen  *)
(* and the URL is returned all the same                                     *)
generateCombinedAudioUrlAnyway(list, d, now, failed, uploadOk) ==
  LET st == CombinedAudioState(list, failed)
      filename == <<"audio", d, "daily-digest", now>>
  IN IF Len(st.audioBuffers) > 0
     THEN [audioUrl |-> filename, audioBuffers |-> st.audioBuffers,
           written |-> IF uploadOk THEN {filename} ELSE {},
           requests |-> st.requests, upload |-> IF uploadOk THEN "ok" ELSE "failed"]
     ELSE [audioUrl |-> UNDEFINED, audioBuffers |-> st.audioBuffers, written |-> {},
           requests |-> st.requests, upload |-> "none"]

(* generateCombinedAudio without the test of lines 601-603: the empty       *)
(* concatenation is put as well                                             *)
generateCombinedAudioNoCheck(list, d, now, failed, uploadOk) ==
  LET st == CombinedAudioState(list, failed)
      filename == <<"audio", d, "daily-digest", now>>
  IN IF uploadOk
     THEN [audioUrl |-> filename, audioBuffers |-> st.audioBuffers, written |-> {filename},
           requests |-> st.requests, upload |-> "ok"]
     ELSE [audioUrl |-> UNDEFINED, audioBuffers |-> st.audioBuffers, written |-> {},
           requests |-> st.requests, upload |-> "failed"]

(* generateCombinedAudio: undefined when no buffer was produced or the      *)
(* upload failed; the key carries Date.now()                                *)
generateCombinedAudio(list, d, now, failed, uploadOk) ==
  LET st == CombinedAudioState(list, failed)
      filename == <<"audio", d, "daily-digest", now>>
  IN IF Len(st.audioBuffers) > 0 /\ uploadOk
     THEN [audioUrl |-> filename, audioBuffers |-> st.audioBuffers, written |-> {filename},
           requests |-> st.requests, upload |-> "ok"]
     ELSE [audioUrl |-> UNDEFINED, audioBuffers |-> st.audioBuffers, written |-> {},
           requests |-> st.requests,
           upload |-> IF Len(st.audioBuffers) > 0 THEN "failed" ELSE "none"]

(* ---------------------------------------------------------------------- *)
(* Recommendation store                                                     *)
(* ---------------------------------------------------------------------- *)
BatchSize == 2

OneYear == 31536000

OrEmpty(v) == IF v = UNDEFINED THEN <<>> ELSE v

(* PutItem: the item replaces the one with the same key                     *)
Put(table, item) == {r \in table : r.id # item.id} \cup {item}

RECURSIVE PutAll(_, _)
PutAll(table, items) ==
  IF items = <<>> THEN table ELSE PutAll(Put(table, Head(items)), Tail(items))

putRequests(list, d, now) ==
  [i \in 1..Len(list) |->
     [id |-> <<list[i].source, i - 1, now>>,
      date |-> d,
      source |-> list[i].source,
      title |-> list[i].title,
      summary |-> OrEmpty(list[i].summary),
      audioUrl |-> OrEmpty(list[i].audioUrl),
      ttl |-> now + OneYear]]

(* a digest id made unique per run, as the item ids are *)
digestIdPerRun(d, now) == <<"digest", d, now>>

(* `digest-${date}` *)
digestId(d, now) == <<"digest", d>>

digestRecord(list, d, now, url) ==
  [id |-> digestId(d, now),
   date |-> d,
   source |-> "daily-digest",
   totalStories |-> Len(list),
   timestamp |-> <<d, now>>,
   combinedAudioUrl |-> OrEmpty(url),
   emailSent |-> FALSE,
   ttl |-> now + OneYear]

(* the batch loop leaving out a last batch that is not full *)
NumBatchesFull(n) == n \div BatchSize

(* the batches of lines 773-776 *)
NumBatches(n) == (n + BatchSize - 1) \div BatchSize

Batch(requests, k) ==
  SubSeq(requests, (k - 1) * BatchSize + 1, Min(k * BatchSize, Len(requests)))

(* docClient.send(batchWriteCommand) for batch k *)
BatchWriteCall(requests, k) ==
  [op |-> "BatchWrite", batch |-> k,
   ids |-> [i \in 1..Len(Batch(requests, k)) |-> Batch(requests, k)[i].id]]

(* a batch loop that catches the failure of a batch and goes on *)
RECURSIVE BatchLoopContinue(_, _, _, _)
BatchLoopContinue(table, requests, k, batchesOk) ==
  IF k > NumBatches(Len(requests)) THEN [threw |-> FALSE, table |-> table, calls |-> <<>>]
  ELSE LET rest == BatchLoopContinue(IF k > batchesOk THEN table
                                     ELSE PutAll(table, Batch(requests, k)),
                                     requests, k + 1, batchesOk)
       IN [rest EXCEPT !.calls = <<BatchWriteCall(requests, k)>> \o rest.calls]

RECURSIVE BatchLoop(_, _, _, _)
BatchLoop(table, requests, k, batchesOk) ==
  IF k > NumBatches(Len(requests)) THEN [threw |-> FALSE, table |-> table, calls |-> <<>>]
  ELSE IF k > batchesOk
       THEN [threw |-> TRUE, table |-> table, calls |-> <<BatchWriteCall(requests, k)>>]
       ELSE LET rest == BatchLoop(PutAll(table, Batch(requests, k)), requests, k + 1, batchesOk)
            IN [rest EXCEPT !.calls = <<BatchWriteCall(requests, k)>> \o rest.calls]

(* saveDailyRecommendations: batchesOk batch writes succeed before one      *)
(* fails; the digest is put after the last batch; any failure is rethrown   *)
saveDailyRecommendations(table, list, d, now, url, batchesOk, digestOk) ==
  LET b == BatchLoop(table, putRequests(list, d, now), 1, batchesOk)
  IN IF b.threw THEN b
     ELSE IF digestOk
          THEN [threw |-> FALSE, table |-> Put(b.table, digestRecord(list, d, now, url)),
                calls |-> Append(b.calls, [op |-> "PutDigest", id |-> digestId(d, now)])]
          ELSE [threw |-> TRUE, table |-> b.table,
                calls |-> Append(b.calls, [op |-> "PutDigest", id |-> digestId(d, now)])]

(* the PutCommand without its ConditionExpression *)
updateEmailSentStatusUnconditional(table, d, now, updOk) ==
  IF updOk
  THEN Put(table, [id |-> <<"digest", d>>, emailSent |-> TRUE, lastUpdated |-> <<d, now>>])
  ELSE table

(* updateEmailSentStatus: a PutCommand of {id, emailSent, lastUpdated}      *)
(* under the condition attribute_exists(id); every error is swallowed       *)
updateEmailSentStatus(table, d, now, updOk) ==
  IF updOk /\ \E r \in table : r.id = <<"digest", d>>
  THEN Put(table, [id |-> <<"digest", d>>, emailSent |-> TRUE, lastUpdated |-> <<d, now>>])
  ELSE table

(* generateEmailHTML: the heading "Top <n> Stories" and one section per      *)
(* story of newsletterData, in order; the play-all box when there is a      *)
(* combined track                                                           *)
generateEmailHTML(data) ==
  [storyCount |-> Len(data.stories),
   sections |-> [i \in 1..Len(data.stories) |->
                   [index |-> i, title |-> data.stories[i].title,
                    summary |-> data.stories[i].summary,
                    audioUrl |-> data.stories[i].audioUrl]],
   playAll |-> data.combinedAudioUrl]

(* generateEmailText: "Top <n> Items:" and one entry per story *)
generateEmailText(data) ==
  [storyCount |-> Len(data.stories),
   sections |-> [i \in 1..Len(data.stories) |->
                   [index |-> i, title |-> data.stories[i].title,
                    summary |-> data.stories[i].summary,
                    audioUrl |-> data.stories[i].audioUrl]],
   playAll |-> data.combinedAudioUrl]

(* sesClient.send(command): the mail built from newsletterData; titles and  *)
(* combinedAudioUrl are what its HTML body lists                            *)
SendEmailCall(data) ==
  [op |-> "SendEmail",
   titles |-> [i \in 1..generateEmailHTML(data).storyCount |->
                 generateEmailHTML(data).sections[i].title],
   combinedAudioUrl |-> generateEmailHTML(data).playAll]

UpdateDigestCall(d) == [op |-> "UpdateDigest", id |-> <<"digest", d>>]

(* sendEmailSummary letting the failure of the update through: the mail is  *)
(* sent and the function throws                                             *)
sendEmailSummaryUpdateThrows(data, table, d, now, mailOk, updOk) ==
  IF mailOk
  THEN [threw |-> ~(updOk /\ \E r \in table : r.id = <<"digest", d>>),
        table |-> updateEmailSentStatus(table, d, now, updOk),
        calls |-> <<SendEmailCall(data), UpdateDigestCall(d)>>]
  ELSE [threw |-> TRUE, table |-> table, calls |-> <<SendEmailCall(data)>>]

(* sendEmailSummary with the two steps swapped: the record is marked       *)
(* before the mail is handed to the mail service                            *)
sendEmailSummaryMarkFirst(data, table, d, now, mailOk, updOk) ==
  IF mailOk
  THEN [threw |-> FALSE, table |-> updateEmailSentStatus(table, d, now, updOk),
        calls |-> <<UpdateDigestCall(d), SendEmailCall(data)>>]
  ELSE [threw |-> TRUE, table |-> updateEmailSentStatus(table, d, now, updOk),
        calls |-> <<UpdateDigestCall(d), SendEmailCall(data)>>]

(* sendEmailSummary: a failed send is thrown before the update              *)
sendEmailSummary(data, table, d, now, mailOk, updOk) ==
  IF mailOk
  THEN [threw |-> FALSE, table |-> updateEmailSentStatus(table, d, now, updOk),
        calls |-> <<SendEmailCall(data), UpdateDigestCall(d)>>]
  ELSE [threw |-> TRUE, table |-> table, calls |-> <<SendEmailCall(data)>>]

(* ---------------------------------------------------------------------- *)
(* The handler, one action per stage                                        *)
(* ---------------------------------------------------------------------- *)
NoResponse == [statusCode |-> 0]

RunIdle ==
  /\ pc = "idle"
  /\ runs = 0
  /\ trigger = "none"
  /\ date = 0
  /\ topStories = <<>>
  /\ trendingRepos = <<>>
  /\ idx = 0
  /\ stories = <<>>
  /\ combinedAudioUrl = UNDEFINED
  /\ audioBuffers = <<>>
  /\ synthFailed = {}
  /\ combinedUpload = "none"
  /\ store = {}
  /\ bucket = {}
  /\ emailSent = FALSE
  /\ mailResult = "none"
  /\ response = NoResponse
  /\ sourceFailed = {}
  /\ digestWrites = {}
  /\ failures = <<>>
  /\ synthRequests = <<>>
  /\ calls = <<>>

ChunkIdle ==
  /\ text = <<>>
  /\ maxChunkSize = CombinedChunkSize
  /\ chunks = <<>>
  /\ cpc = "start"

FetchIdle ==
  /\ topStoriesData = <<>>
  /\ failedIds = {}
  /\ hnLimit = 0
  /\ page = <<>>
  /\ articleContent = <<>>

Init == RunIdle /\ ChunkIdle /\ FetchIdle

(* the platform invokes the handler: lines 79-86 *)
StartRun ==
  /\ pc \in {"idle", "done"}
  /\ runs < MaxRuns
  /\ runs' = runs + 1
  /\ trigger' \in {"aws.events", "direct"}
  /\ date' \in {d \in {date, date + 1} : 1 <= d /\ d <= MaxDate}
  /\ pc' = "fetchHN"
  /\ topStories' = <<>>
  /\ trendingRepos' = <<>>
  /\ idx' = 0
  /\ stories' = <<>>
  /\ combinedAudioUrl' = UNDEFINED
  /\ audioBuffers' = <<>>
  /\ synthFailed' = {}
  /\ combinedUpload' = "none"
  /\ emailSent' = FALSE
  /\ mailResult' = "none"
  /\ response' = NoResponse
  /\ sourceFailed' = {}
  /\ failures' = <<>>
  /\ synthRequests' = <<>>
  /\ calls' = <<>>
  /\ UNCHANGED <<store, bucket, digestWrites, chunkVars, fetchVars>>

(* an API response that always answers 200 *)
ShapedForAlwaysOk(src, result) ==
  IF src = "aws.events"
  THEN [statusCode |-> result.statusCode, shape |-> "plain", result |-> result]
  ELSE [statusCode |-> 200, shape |-> "http", result |-> result]

(* the response shape of lines 193-209 and 221-232 for event.source = src:  *)
(* the result itself, or the API Gateway response whose body is the result  *)
ShapedFor(src, result) ==
  IF src = "aws.events"
  THEN [statusCode |-> result.statusCode, shape |-> "plain", result |-> result]
  ELSE [statusCode |-> result.statusCode, shape |-> "http", result |-> result]

Shaped(result) == ShapedFor(trigger, result)

(* line 184 *)
resultSource(src) ==
  IF src = "aws.events" THEN "scheduled-event" ELSE "manual-invocation"

errorResult ==
  [statusCode |-> 500, message |-> "NewsAgent failed", timestamp |-> <<date, runs>>,
   error |-> "fetch failed"]

(* a handler without the outer catch: the exception leaves the handler     *)
topLevelUncaught == [escaped |-> TRUE, response |-> NoResponse]

(* the catch of lines 211-233: the exception becomes the error result       *)
topLevelCatch == [escaped |-> FALSE, response |-> Shaped(errorResult)]

Thrown ==
  /\ response' = topLevelCatch.response
  /\ pc' = IF topLevelCatch.escaped THEN "crashed" ELSE "done"

(* line 91 *)
FetchHackerNews ==
  /\ pc = "fetchHN"
  /\ \E listOk \in BOOLEAN, ranked \in RankedLists :
       \E itemFails \in SUBSET (1..Len(ranked)) :
         \E r \in {getTopHackerNewsStories(listOk, ranked, itemFails, HNLimit)} :
            /\ sourceFailed' = IF listOk THEN sourceFailed
                                ELSE sourceFailed \cup {"hacker-news"}
            /\ IF r.threw
               THEN /\ Thrown
                    /\ UNCHANGED topStories
               ELSE /\ topStories' = r.items
                    /\ pc' = "fetchGH"
                    /\ UNCHANGED response
  /\ UNCHANGED <<runs, trigger, date, trendingRepos, idx, stories, combinedAudioUrl,
                 audioBuffers, synthFailed, combinedUpload, store, bucket, emailSent, mailResult,
                 chunkVars, fetchVars,
                 digestWrites,
                 failures, synthRequests, calls>>

(* line 94 *)
FetchGitHub ==
  /\ pc = "fetchGH"
  /\ \E searchOk \in BOOLEAN, n \in 0..MaxRepos :
       \E r \in {getTopGitHubTrending(searchOk, n, GHLimit)} :
          /\ sourceFailed' = IF searchOk THEN sourceFailed
                              ELSE sourceFailed \cup {"github-trending"}
          /\ IF r.threw
             THEN /\ Thrown
                  /\ UNCHANGED trendingRepos
             ELSE /\ trendingRepos' = r.items
                  /\ pc' = "processing"
                  /\ UNCHANGED response
  /\ UNCHANGED <<runs, trigger, date, topStories, idx, stories, combinedAudioUrl,
                 audioBuffers, synthFailed, combinedUpload, store, bucket, emailSent, mailResult,
                 chunkVars, fetchVars,
                 digestWrites,
                 failures, synthRequests, calls>>

(* the synthesizer requests of the item at position i of the two loops *)
ItemRequests(i, texts) == [k \in 1..Len(texts) |-> Segment("item", i, 0, texts[k])]

(* one iteration of the loop of lines 102-113 *)
ProcessHNStory ==
  /\ pc = "processing"
  /\ idx < Len(topStories)
  /\ \E o \in Outcomes :
       \E r \in {processStoryWithSummary(topStories[idx + 1], date, o)} :
          /\ stories' = IF r.threw THEN stories ELSE Append(stories, r.info)
          /\ bucket' = bucket \cup r.written
          /\ failures' = Append(failures, r.failure)
          /\ synthRequests' = synthRequests \o ItemRequests(idx + 1, r.requests)
  /\ idx' = idx + 1
  /\ UNCHANGED <<pc, runs, trigger, date, topStories, trendingRepos, combinedAudioUrl,
                 audioBuffers, synthFailed, combinedUpload, store, emailSent, mailResult, response,
                 chunkVars, fetchVars,
                 sourceFailed, digestWrites, calls>>

(* one iteration of the loop of lines 116-127 *)
ProcessGitHubRepo ==
  /\ pc = "processing"
  /\ idx >= Len(topStories)
  /\ idx < Len(topStories) + Len(trendingRepos)
  /\ \E o \in Outcomes :
       \E r \in {processGitHubRepository(trendingRepos[idx - Len(topStories) + 1], date, o)} :
          /\ stories' = IF r.threw THEN stories ELSE Append(stories, r.info)
          /\ bucket' = bucket \cup r.written
          /\ failures' = Append(failures, r.failure)
          /\ synthRequests' = synthRequests \o ItemRequests(idx + 1, r.requests)
  /\ idx' = idx + 1
  /\ UNCHANGED <<pc, runs, trigger, date, topStories, trendingRepos, combinedAudioUrl,
                 audioBuffers, synthFailed, combinedUpload, store, emailSent, mailResult, response,
                 chunkVars, fetchVars,
                 sourceFailed, digestWrites, calls>>

(* the filter of line 148 without the test against the sentinel *)
HasAnySummary(story) ==
  story.summary # UNDEFINED /\ story.summary # <<>>

(* line 148 *)
HasUsableSummary(story) ==
  story.summary # UNDEFINED /\ story.summary # <<>> /\ story.summary # SUMMARY_UNAVAILABLE

storiesWithSummaries == SelectSeq(stories, HasUsableSummary)

(* the failure patterns of the synthesizer tried inside a whole run: none,  *)
(* the first call, all but the last call, all calls                         *)
SampleFailures(n) == {{}, {1}, 1..(n - 1), 1..n}

AllFailures(n) == SUBSET (1..n)

(* the combined track started while the loops are still running *)
LoopsStarted == idx >= 0

(* line 148 is reached when both loops of lines 101-127 have run to the end *)
LoopsFinished == idx = Len(topStories) + Len(trendingRepos)

(* lines 147-154; the buffers are locals of generateCombinedAudio and are  *)
(* gone when it returns                                                     *)
AssembleAudio ==
  /\ pc = "processing"
  /\ LoopsFinished
  /\ IF Len(storiesWithSummaries) > 0
     THEN \E failed \in SampleFailures(SynthCalls(storiesWithSummaries)), uploadOk \in BOOLEAN :
            \E r \in {generateCombinedAudio(storiesWithSummaries, date, runs, failed, uploadOk)} :
               /\ combinedAudioUrl' = r.audioUrl
               /\ bucket' = bucket \cup r.written
               /\ synthRequests' = synthRequests \o r.requests
     ELSE UNCHANGED <<combinedAudioUrl, bucket, synthRequests>>
  /\ pc' = "persisting"
  /\ UNCHANGED <<runs, trigger, date, topStories, trendingRepos, idx, stories, store,
                 audioBuffers, synthFailed, combinedUpload, emailSent, mailResult, response, chunkVars, fetchVars,
                 sourceFailed, digestWrites,
                 failures, calls>>

(* the try of lines 163-168 without its catch: what saveDailyRecommendations *)
(* throws goes on to the catch of the handler                               *)
saveUncaught(threw) == threw

(* lines 166-168: the error is logged; TRUE would mean it is thrown on      *)
saveCatch(threw) == FALSE

(* lines 162-168 *)
SaveRecommendations ==
  /\ pc = "persisting"
  /\ \E batchesOk \in 0..NumBatches(Len(stories)), digestOk \in BOOLEAN :
       \E r \in {saveDailyRecommendations(store, stories, date, runs, combinedAudioUrl,
                                         batchesOk, digestOk)} :
          /\ store' = r.table
          /\ digestWrites' = IF r.threw THEN digestWrites
                              ELSE digestWrites \cup {<<date, runs>>}
          /\ calls' = calls \o r.calls
          /\ IF saveCatch(r.threw)
             THEN Thrown
             ELSE pc' = "sending" /\ UNCHANGED response
  /\ UNCHANGED <<runs, trigger, date, topStories, trendingRepos, idx, stories,
                 combinedAudioUrl, audioBuffers, synthFailed, combinedUpload, bucket, emailSent,
                 mailResult, chunkVars, fetchVars,
                 sourceFailed,
                 failures, synthRequests>>

(* the result built before the mail step: emailSent still has the value it  *)
(* is declared with                                                         *)
successResultBeforeSend(sent) ==
  [statusCode |-> 200,
   message |-> "NewsAgent completed successfully",
   timestamp |-> <<date, runs>>,
   source |-> IF trigger = "aws.events" THEN "scheduled-event" ELSE "manual-invocation",
   data |-> [storiesProcessed |-> Len(stories),
             stories |-> stories,
             emailSent |-> FALSE,
             combinedAudioUrl |-> combinedAudioUrl]]

(* lines 180-191 for event.source = src *)
successResultFor(src, sent) ==
  [statusCode |-> 200,
   message |-> "NewsAgent completed successfully",
   timestamp |-> <<date, runs>>,
   source |-> resultSource(src),
   data |-> [storiesProcessed |-> Len(stories),
             stories |-> stories,
             emailSent |-> sent,
             combinedAudioUrl |-> combinedAudioUrl]]

successResult(sent) == successResultFor(trigger, sent)

(* the newsletter built from every item of the run *)
newsletterDataAllStories == [stories |-> stories, combinedAudioUrl |-> combinedAudioUrl]

(* lines 156-160 *)
newsletterData == [stories |-> storiesWithSummaries, combinedAudioUrl |-> combinedAudioUrl]

(* the mail step without its try block: a failed send reaches the outer     *)
(* catch                                                                    *)
mailUncaught(threw) == threw

(* lines 172-178: an exception of sendEmailSummary is logged, it does not   *)
(* leave the try block of the mail step                                     *)
mailCatch(threw) == FALSE

(* lines 170-209: the mail is sent, the flag is set and the result returned *)
SendEmailAndReturn ==
  /\ pc = "sending"
  /\ \E mailOk \in BOOLEAN, updOk \in BOOLEAN :
       \E r \in {sendEmailSummary(newsletterData, store, date, runs, mailOk, updOk)} :
          /\ store' = r.table
          /\ calls' = calls \o r.calls
          /\ emailSent' = ~r.threw
          /\ mailResult' = IF mailOk THEN "sent" ELSE "failed"
          /\ response' = IF mailCatch(r.threw) THEN topLevelCatch.response
                          ELSE Shaped(successResult(~r.threw))
  /\ pc' = "done"
  /\ UNCHANGED <<runs, trigger, date, topStories, trendingRepos, idx, stories,
                 combinedAudioUrl, audioBuffers, synthFailed, combinedUpload, bucket, chunkVars, fetchVars,
                 sourceFailed, digestWrites,
                 failures, synthRequests>>

Next ==
  \/ StartRun
  \/ FetchHackerNews
  \/ FetchGitHub
  \/ ProcessHNStory
  \/ ProcessGitHubRepo
  \/ AssembleAudio
  \/ SaveRecommendations
  \/ SendEmailAndReturn

Spec == Init /\ [][Next]_vars

(* ---------------------------------------------------------------------- *)
(* One run of the handler from the empty store, with the outcome of the     *)
(* combined track kept: which synthesis calls failed, the buffers that were *)
(* concatenated and what became of the put                                  *)
(* ---------------------------------------------------------------------- *)
FirstRun == runs = 0 /\ StartRun

(* lines 147-154, as AssembleAudio *)
AssembleAudioTraced ==
  /\ pc = "processing"
  /\ LoopsFinished
  /\ IF Len(storiesWithSummaries) > 0
     THEN \E failed \in SampleFailures(SynthCalls(storiesWithSummaries)), uploadOk \in BOOLEAN :
            \E r \in {generateCombinedAudio(storiesWithSummaries, date, runs, failed, uploadOk)} :
               /\ combinedAudioUrl' = r.audioUrl
               /\ bucket' = bucket \cup r.written
               /\ synthRequests' = synthRequests \o r.requests
               /\ audioBuffers' = r.audioBuffers
               /\ synthFailed' = failed
               /\ combinedUpload' = r.upload
     ELSE UNCHANGED <<combinedAudioUrl, bucket, synthRequests, audioBuffers, synthFailed,
                      combinedUpload>>
  /\ pc' = "persisting"
  /\ UNCHANGED <<runs, trigger, date, topStories, trendingRepos, idx, stories, store,
                 emailSent, mailResult, response, chunkVars, fetchVars, sourceFailed, digestWrites,
                 failures, calls>>

RunNext ==
  \/ FirstRun
  \/ FetchHackerNews
  \/ FetchGitHub
  \/ ProcessHNStory
  \/ ProcessGitHubRepo
  \/ AssembleAudioTraced
  \/ SaveRecommendations
  \/ SendEmailAndReturn

SpecRun == Init /\ [][RunNext]_vars

(* ---------------------------------------------------------------------- *)
(* generateCombinedAudio alone: any list of summarized items, any failures  *)
(* ---------------------------------------------------------------------- *)
AudioStory(i, kind) ==
  IF kind = "repo"
  THEN [title |-> GHTitle(i), source |-> "github-trending",
        summary |-> repoSummary(GHTitle(i)), audioUrl |-> UNDEFINED]
  ELSE [title |-> HNTitle(i), source |-> "hacker-news",
        summary |-> IF kind = "short" THEN <<"a", ".">>
                    ELSE <<"*", "*", "a", "*", "*", ".", " ", "b", "!", " ", "c", " ", "d", ".">>,
        audioUrl |-> UNDEFINED]

AudioInputs ==
  UNION {{[i \in 1..n |-> AudioStory(i, k[i])] : k \in [1..n -> {"short", "long", "repo"}]} :
           n \in 1..MaxAudioStories}

AudioInit ==
  /\ ChunkIdle
  /\ FetchIdle
  /\ pc = "processing"
  /\ runs = 1
  /\ trigger = "direct"
  /\ date = 1
  /\ topStories = <<>>
  /\ trendingRepos = <<>>
  /\ idx = 0
  /\ stories \in AudioInputs
  /\ combinedAudioUrl = UNDEFINED
  /\ audioBuffers = <<>>
  /\ synthFailed = {}
  /\ combinedUpload = "none"
  /\ store = {}
  /\ bucket = {}
  /\ emailSent = FALSE
  /\ mailResult = "none"
  /\ response = NoResponse
  /\ sourceFailed = {}
  /\ digestWrites = {}
  /\ failures = <<>>
  /\ synthRequests = <<>>
  /\ calls = <<>>

(* one call of generateCombinedAudio, the buffers it concatenates kept *)
AssembleAnyFailure ==
  /\ pc = "processing"
  /\ \E failed \in AllFailures(SynthCalls(stories)), uploadOk \in BOOLEAN :
       \E r \in {generateCombinedAudio(stories, date, runs, failed, uploadOk)} :
          /\ combinedAudioUrl' = r.audioUrl
          /\ audioBuffers' = r.audioBuffers
          /\ synthFailed' = failed
          /\ combinedUpload' = r.upload
          /\ bucket' = bucket \cup r.written
          /\ synthRequests' = synthRequests \o r.requests
  /\ pc' = "assembled"
  /\ UNCHANGED <<runs, trigger, date, topStories, trendingRepos, idx, stories, store,
                 emailSent, mailResult, response, chunkVars, fetchVars,
                 sourceFailed, digestWrites,
                 failures, calls>>

AudioNext == AssembleAnyFailure

SpecAudio == AudioInit /\ [][AudioNext]_vars

(* ---------------------------------------------------------------------- *)
(* The two ways to the synthesizer for one item: generateAudio on its       *)
(* summary, then generateCombinedAudio on the one-item list; summaries of   *)
(* any length up to MaxSummaryLen, which is above the ceiling               *)
(* ---------------------------------------------------------------------- *)
(* a sentence of n characters: words of one letter and the full stop *)
Sentence(n) == [i \in 1..n |-> IF i = n THEN "." ELSE IF i % 2 = 0 THEN SPACE ELSE "a"]

(* one sentence, or two separated by a space *)
SpeechSummaries ==
  {Sentence(n) : n \in 2..MaxSummaryLen}
  \cup {Sentence(p[1]) \o <<SPACE>> \o Sentence(p[2]) :
          p \in {q \in (2..MaxSummaryLen) \X (2..MaxSummaryLen) : q[1] + q[2] + 1 <= MaxSummaryLen}}

SpeechInit ==
  /\ ChunkIdle
  /\ FetchIdle
  /\ pc = "summarized"
  /\ runs = 1
  /\ trigger = "direct"
  /\ date = 1
  /\ topStories = <<>>
  /\ trendingRepos = <<>>
  /\ idx = 0
  /\ stories \in {<<[title |-> HNTitle(1), source |-> "hacker-news",
                     summary |-> s, audioUrl |-> UNDEFINED]>> : s \in SpeechSummaries}
  /\ combinedAudioUrl = UNDEFINED
  /\ audioBuffers = <<>>
  /\ synthFailed = {}
  /\ combinedUpload = "none"
  /\ store = {}
  /\ bucket = {}
  /\ emailSent = FALSE
  /\ mailResult = "none"
  /\ response = NoResponse
  /\ sourceFailed = {}
  /\ digestWrites = {}
  /\ failures = <<>>
  /\ synthRequests = <<>>
  /\ calls = <<>>

(* line 363: const audioUrl = await generateAudio(story.title, summary) *)
SynthesizeItem ==
  /\ pc = "summarized"
  /\ \E synthOk \in BOOLEAN, uploadOk \in BOOLEAN :
       \E r \in {generateAudio(stories[1].title, stories[1].summary, date, synthOk, uploadOk)} :
          /\ stories' = [stories EXCEPT ![1].audioUrl = r.audioUrl]
          /\ bucket' = bucket \cup r.written
          /\ failures' = Append(failures, r.failure)
          /\ synthRequests' = synthRequests \o ItemRequests(1, <<r.request>>)
  /\ pc' = "processing"
  /\ UNCHANGED <<runs, trigger, date, topStories, trendingRepos, idx, combinedAudioUrl,
                 audioBuffers, synthFailed, combinedUpload, store,
                 emailSent, mailResult, response, chunkVars, fetchVars,
                 sourceFailed, digestWrites, calls>>

SpeechNext == SynthesizeItem \/ AssembleAnyFailure

SpecSpeech == SpeechInit /\ [][SpeechNext]_vars

(* ---------------------------------------------------------------------- *)
(* getTopHackerNewsStories alone: any ranked list, any failing ids, any     *)
(* limit                                                                    *)
(* ---------------------------------------------------------------------- *)
RankedListsOfLen(n) ==
  {l \in [1..n -> UNION {HNEntries(r) : r \in 1..n}] : \A r \in 1..n : l[r] \in HNEntries(r)}

FetchInit ==
  /\ ChunkIdle
  /\ topStoriesData \in UNION {RankedListsOfLen(n) : n \in 0..MaxFetchRanked}
  /\ failedIds \in SUBSET (1..Len(topStoriesData))
  /\ hnLimit \in 0..MaxFetchLimit
  /\ page = <<>>
  /\ articleContent = <<>>
  /\ pc = "fetchHN"
  /\ runs = 1
  /\ trigger = "direct"
  /\ date = 1
  /\ topStories = <<>>
  /\ trendingRepos = <<>>
  /\ idx = 0
  /\ stories = <<>>
  /\ combinedAudioUrl = UNDEFINED
  /\ audioBuffers = <<>>
  /\ synthFailed = {}
  /\ combinedUpload = "none"
  /\ store = {}
  /\ bucket = {}
  /\ emailSent = FALSE
  /\ mailResult = "none"
  /\ response = NoResponse
  /\ sourceFailed = {}
  /\ digestWrites = {}
  /\ failures = <<>>
  /\ synthRequests = <<>>
  /\ calls = <<>>

(* one call getTopHackerNewsStories(hnLimit) against the list served *)
GetTopStories ==
  /\ pc = "fetchHN"
  /\ \E listOk \in BOOLEAN :
       \E r \in {getTopHackerNewsStories(listOk, topStoriesData, failedIds, hnLimit)} :
          /\ topStories' = r.items
          /\ sourceFailed' = IF listOk THEN sourceFailed ELSE sourceFailed \cup {"hacker-news"}
          /\ pc' = IF r.threw THEN "fetchThrew" ELSE "fetched"
  /\ UNCHANGED <<runs, trigger, date, trendingRepos, idx, stories, combinedAudioUrl,
                 audioBuffers, synthFailed, combinedUpload, store, bucket, emailSent,
                 mailResult, response, chunkVars, fetchVars, digestWrites,
                 failures, synthRequests, calls>>

FetchNext == GetTopStories

SpecFetch == FetchInit /\ [][FetchNext]_vars

(* ---------------------------------------------------------------------- *)
(* The store write and the mail step alone: any list of up to MaxSaveItems  *)
(* items (more than one batch), any failure of the table and of the mail    *)
(* ---------------------------------------------------------------------- *)
SaveStory(i, kind) ==
  IF kind = "repo"
  THEN [title |-> GHTitle(i), source |-> "github-trending",
        summary |-> repoSummary(GHTitle(i)), audioUrl |-> <<"audio", 1, titleSlug(GHTitle(i))>>]
  ELSE [title |-> HNTitle(i), source |-> "hacker-news",
        summary |-> IF kind = "summarized" THEN <<"a", ".">>
                    ELSE IF kind = "unavailable" THEN SUMMARY_UNAVAILABLE ELSE UNDEFINED,
        audioUrl |-> UNDEFINED]

SaveInputs ==
  UNION {{[i \in 1..n |-> SaveStory(i, k[i])] :
            k \in [1..n -> {"summarized", "unavailable", "plain", "repo"}]} :
           n \in 0..MaxSaveItems}

SaveInit ==
  /\ ChunkIdle
  /\ FetchIdle
  /\ pc = "persisting"
  /\ runs = 1
  /\ trigger = "direct"
  /\ date = 1
  /\ topStories = <<>>
  /\ trendingRepos = <<>>
  /\ idx = 0
  /\ stories \in SaveInputs
  /\ combinedAudioUrl \in {UNDEFINED, <<"audio", 1, "daily-digest", 1>>}
  /\ audioBuffers = <<>>
  /\ synthFailed = {}
  /\ combinedUpload = "none"
  /\ store = {}
  /\ bucket = {}
  /\ emailSent = FALSE
  /\ mailResult = "none"
  /\ response = NoResponse
  /\ sourceFailed = {}
  /\ digestWrites = {}
  /\ failures = <<>>
  /\ synthRequests = <<>>
  /\ calls = <<>>

SaveNext == SaveRecommendations \/ SendEmailAndReturn

SpecSave == SaveInit /\ [][SaveNext]_vars

(* ---------------------------------------------------------------------- *)
(* fetchArticleContent alone: any page up to MaxPageLen elements            *)
(* ---------------------------------------------------------------------- *)
PageAlphabet == {"a", SPACE, TAG, SCRIPT}

Pages == UNION {[1..n -> PageAlphabet] : n \in 0..MaxPageLen}

ArticleInit ==
  /\ ChunkIdle
  /\ topStoriesData = <<>>
  /\ failedIds = {}
  /\ hnLimit = 0
  /\ page \in Pages
  /\ articleContent = <<>>
  /\ pc = "extracting"
  /\ runs = 1
  /\ trigger = "direct"
  /\ date = 1
  /\ topStories = <<>>
  /\ trendingRepos = <<>>
  /\ idx = 0
  /\ stories = <<>>
  /\ combinedAudioUrl = UNDEFINED
  /\ audioBuffers = <<>>
  /\ synthFailed = {}
  /\ combinedUpload = "none"
  /\ store = {}
  /\ bucket = {}
  /\ emailSent = FALSE
  /\ mailResult = "none"
  /\ response = NoResponse
  /\ sourceFailed = {}
  /\ digestWrites = {}
  /\ failures = <<>>
  /\ synthRequests = <<>>
  /\ calls = <<>>

(* line 356: const articleContent = await fetchArticleContent(story.url) *)
FetchArticle ==
  /\ pc = "extracting"
  /\ \E getOk \in BOOLEAN :
       \E r \in {fetchArticleContent(getOk, page)} :
          /\ articleContent' = r.content
          /\ failures' = <<IF getOk THEN "none" ELSE "extract">>
          /\ pc' = IF r.threw THEN "extractThrew" ELSE "extracted"
  /\ UNCHANGED <<runs, trigger, date, topStories, trendingRepos, idx, stories,
                 combinedAudioUrl, audioBuffers, synthFailed, combinedUpload, store, bucket,
                 emailSent, mailResult, response, chunkVars, topStoriesData, failedIds,
                 hnLimit, page, sourceFailed, digestWrites, synthRequests, calls>>

ArticleNext == FetchArticle

SpecArticle == ArticleInit /\ [][ArticleNext]_vars

(* ---------------------------------------------------------------------- *)
(* The two loops alone: up to MaxItemStories qualifying stories and one     *)
(* repository, any outcome of the enrichment of each                        *)
(* ---------------------------------------------------------------------- *)
QualifyingStories(n) ==
  [r \in 1..n |-> [id |-> r, title |-> HNTitle(r), type |-> "story", hasUrl |-> TRUE]]

ItemsInit ==
  /\ ChunkIdle
  /\ FetchIdle
  /\ pc = "processing"
  /\ runs = 1
  /\ trigger = "direct"
  /\ date = 1
  /\ topStories \in {QualifyingStories(n) : n \in 0..MaxItemStories}
  /\ trendingRepos \in {getTopGitHubTrending(TRUE, n, GHLimit).items : n \in 0..MaxRepos}
  /\ idx = 0
  /\ stories = <<>>
  /\ combinedAudioUrl = UNDEFINED
  /\ audioBuffers = <<>>
  /\ synthFailed = {}
  /\ combinedUpload = "none"
  /\ store = {}
  /\ bucket = {}
  /\ emailSent = FALSE
  /\ mailResult = "none"
  /\ response = NoResponse
  /\ sourceFailed = {}
  /\ digestWrites = {}
  /\ failures = <<>>
  /\ synthRequests = <<>>
  /\ calls = <<>>

ItemsNext == ProcessHNStory \/ ProcessGitHubRepo

SpecItems == ItemsInit /\ [][ItemsNext]_vars

(* ---------------------------------------------------------------------- *)
(* Specification of the chunker alone: any text, any chunk size             *)
(* ---------------------------------------------------------------------- *)
Alphabet == {"a", SPACE, ".", "!"}

Texts == UNION {[1..n -> Alphabet] : n \in 0..MaxTextLen}

ChunkInit ==
  /\ RunIdle
  /\ FetchIdle
  /\ text \in Texts
  /\ maxChunkSize \in 2..MaxChunk
  /\ chunks = <<>>
  /\ cpc = "start"

SplitText ==
  /\ cpc = "start"
  /\ chunks' = splitTextIntoChunks(text, maxChunkSize)
  /\ cpc' = "split"
  /\ UNCHANGED <<text, maxChunkSize, runVars, fetchVars>>

ChunkNext == SplitText

SpecChunk == ChunkInit /\ [][ChunkNext]_vars

(* ---------------------------------------------------------------------- *)
(* Claims about splitTextIntoChunks (checked under SpecChunk)               *)
(* ---------------------------------------------------------------------- *)
RECURSIVE Flatten(_)
Flatten(ss) == IF ss = <<>> THEN <<>> ELSE Head(ss) \o Flatten(Tail(ss))

(* the sentences a listener hears in a piece of text: the non-blank pieces  *)
(* between terminators, without the surrounding blanks                      *)
SentencesOf(t) ==
  LET kept == SelectSeq(SplitSentences(t), NonEmptyTrim)
  IN [i \in 1..Len(kept) |-> Trim(kept[i])]

SplitDone == cpc = "split" /\ Len(text) > maxChunkSize

(* C8: for every text longer than maxChunkSize, every chunk returned by     *)
(* splitTextIntoChunks has length at most maxChunkSize, also when a single  *)
(* sentence is longer than maxChunkSize and when the sentence pass yields   *)
(* no chunk.                                                                *)
C8_ChunksWithinCeiling ==
  SplitDone => \A i \in 1..Len(chunks) : Len(chunks[i]) <= maxChunkSize

(* C9: for every text longer than maxChunkSize, reading the chunks in order *)
(* gives every non-empty sentence of the original exactly once, in the      *)
(* original order, each sentence wholly inside one chunk.                   *)
C9_SentenceCoverage ==
  SplitDone =>
    Flatten([i \in 1..Len(chunks) |-> SentencesOf(chunks[i])]) = SentencesOf(text)

C9_Witness ==
  /\ SplitDone
  /\ Len(chunks) >= 2
  /\ \E i \in 1..Len(chunks) : Len(SentencesOf(chunks[i])) >= 2

(* ---------------------------------------------------------------------- *)
(* Claims about a run of the handler (checked under Spec)                   *)
(* ---------------------------------------------------------------------- *)
Fetched == Len(topStories) + Len(trendingRepos)

IsErrorResult(r) ==
  /\ DOMAIN r = {"statusCode", "message", "timestamp", "error"}
  /\ r.statusCode = 500
  /\ r.timestamp = <<date, runs>>

IsSuccessResult(r) ==
  /\ DOMAIN r = {"statusCode", "message", "timestamp", "source", "data"}
  /\ r.statusCode = 200
  /\ DOMAIN r.data = {"storiesProcessed", "stories", "emailSent", "combinedAudioUrl"}

(* C1: whatever external call fails, no exception leaves the handler and    *)
(* what it returns is structured: status 200 whenever the run reached its   *)
(* end (the mail step), even if every enrichment step failed, and status    *)
(* 500 with message and timestamp only when an exception reached the outer  *)
(* catch, which happens before the run reached its end.                     *)
C1_HandlerAlwaysReturns ==
  /\ pc # "crashed"
  /\ pc = "done" =>
       /\ response.statusCode = response.result.statusCode
       /\ response.shape = IF trigger = "aws.events" THEN "plain" ELSE "http"
       /\ IsSuccessResult(response.result) \/ IsErrorResult(response.result)
       /\ mailResult # "none" => IsSuccessResult(response.result)
       /\ IsErrorResult(response.result) => mailResult = "none" /\ sourceFailed # {}

(* a completed run in which every enrichment failed and so did the store    *)
(* and the mail                                                             *)
C1_Witness ==
  /\ pc = "done"
  /\ response.statusCode = 200
  /\ Len(stories) = 2
  /\ \A i \in 1..Len(stories) : stories[i].audioUrl = UNDEFINED
  /\ stories[1].summary \in {UNDEFINED, SUMMARY_UNAVAILABLE}
  /\ combinedAudioUrl = UNDEFINED
  /\ mailResult = "failed"
  /\ store = {}

(* C2: when the top-level list of one source cannot be fetched, that source *)
(* contributes the empty list and the run completes with a success result.  *)
C2_SourceFailureIsNotFatal ==
  (pc = "done" /\ sourceFailed # {}) =>
     /\ response.statusCode = 200
     /\ "hacker-news" \in sourceFailed => topStories = <<>>
     /\ "github-trending" \in sourceFailed => trendingRepos = <<>>

(* C3: in a completed run the result holds as many items as the two         *)
(* fetchers returned, whatever failed while the items were enriched.        *)
C3_NoItemDropped ==
  (pc = "done" /\ response.statusCode = 200) =>
     /\ response.result.data.storiesProcessed = Fetched
     /\ Len(response.result.data.stories) = Fetched
     /\ \A i \in 1..Len(topStories) :
          response.result.data.stories[i].title = topStories[i].title
     /\ \A i \in 1..Len(trendingRepos) :
          response.result.data.stories[Len(topStories) + i].title = trendingRepos[i].full_name

C3_Witness ==
  /\ pc = "done"
  /\ response.statusCode = 200
  /\ Len(topStories) = 1
  /\ Len(trendingRepos) = 1
  /\ response.result.data.storiesProcessed = 2
  /\ response.result.data.stories[1].summary = SUMMARY_UNAVAILABLE
  /\ response.result.data.stories[2].audioUrl = UNDEFINED

(* ---------------------------------------------------------------------- *)
(* Claims about the DigestRecord (checked under Spec)                       *)
(* ---------------------------------------------------------------------- *)
Dates == 1..MaxDate

DigestsOf(table, d) == {r \in table : r.id[1] = "digest" /\ r.id[2] = d}

MarkedSent(table, d) == \E r \in DigestsOf(table, d) : r.emailSent

(* the record this run's saveDailyRecommendations has put *)
CreatedByThisRun(table) ==
  {r \in DigestsOf(table, date) : "timestamp" \in DOMAIN r /\ r.timestamp = <<date, runs>>}

C4_Step ==
  /\ (pc = "persisting" /\ <<date, runs>> \in digestWrites') =>
        /\ CreatedByThisRun(store') # {}
        /\ \A r \in CreatedByThisRun(store') : r.emailSent = FALSE
  /\ \A d \in Dates :
        (~MarkedSent(store, d) /\ MarkedSent(store', d)) =>
           (pc = "sending" /\ mailResult' = "sent" /\ d = date)
  /\ (pc = "sending" /\ mailResult' = "failed") => store' = store

(* C4: the DigestRecord has emailSent=false right after                     *)
(* saveDailyRecommendations has created it, turns to emailSent=true only in *)
(* the step in which the mail send of that run succeeded, and is left as it *)
(* is (false) when the mail send fails.                                     *)
C4_EmailSentLifecycle == [][C4_Step]_vars

C4_Witness ==
  /\ pc = "done"
  /\ mailResult = "sent"
  /\ <<date, runs>> \in digestWrites
  /\ MarkedSent(store, date)

(* C5: over any sequence of runs, the emailSent of the DigestRecord of a    *)
(* date never goes back from true to false (so it turns true only once).    *)
C5_EmailSentNeverReset ==
  [][\A d \in Dates : MarkedSent(store, d) => MarkedSent(store', d)]_vars

CreationFields == {"date", "totalStories", "timestamp", "combinedAudioUrl", "ttl"}

(* C6: marking the digest as emailed keeps the record: after the update the *)
(* record of the date still has the date, totalStories, timestamp,          *)
(* combinedAudioUrl and ttl it was created with.                            *)
C6_UpdateKeepsRecord ==
  [][(pc = "sending" /\ mailResult' = "sent" /\ MarkedSent(store', date)) =>
        \A old \in DigestsOf(store, date) : \A new \in DigestsOf(store', date) :
           \A f \in CreationFields \cap DOMAIN old :
              f \in DOMAIN new /\ new[f] = old[f]]_vars

(* C7: after any sequence of runs the store holds at most one DigestRecord  *)
(* per date: the id is "digest-" + date and a second put overwrites.        *)
C7_OneDigestPerDate ==
  \A d \in Dates :
     /\ Cardinality(DigestsOf(store, d)) <= 1
     /\ (\E w \in digestWrites : w[1] = d) => Cardinality(DigestsOf(store, d)) = 1

(* the digest of one date was put by two runs *)
C7_Witness ==
  /\ pc = "sending"
  /\ digestWrites = {<<date, 1>>, <<date, 2>>}
  /\ Cardinality(DigestsOf(store, date)) = 1
  /\ CreatedByThisRun(store) # {}

(* ---------------------------------------------------------------------- *)
(* Claims about generateCombinedAudio (checked under SpecAudio)             *)
(* ---------------------------------------------------------------------- *)
ChunksOf(story) ==
  LET cs == splitTextIntoChunks(cleanSummary(story.summary), CombinedChunkSize)
  IN [k \in 1..Len(cs) |-> Segment("chunk", 0, k, truncatedText(cs[k]))]

(* the narration of item i of n: title line, chunks, transition unless last *)
ItemPlan(list, i) ==
  <<Segment("title", i, 0, truncatedText(list[i].title))>>
    \o [k \in 1..Len(ChunksOf(list[i])) |-> [ChunksOf(list[i])[k] EXCEPT !.index = i]]
    \o (IF i < Len(list) THEN <<Segment("transition", i, 0, <<>>)>> ELSE <<>>)

NarrationPlan(list) ==
  <<Segment("intro", 0, 0, <<>>)>>
    \o Flatten([i \in 1..Len(list) |-> ItemPlan(list, i)])
    \o <<Segment("outro", Len(list) + 1, 0, <<>>)>>

(* the plan without the calls that failed, order kept *)
RECURSIVE Surviving(_, _, _)
Surviving(plan, failed, k) ==
  IF k > Len(plan) THEN <<>>
  ELSE (IF k \in failed THEN <<>> ELSE <<plan[k]>>) \o Surviving(plan, failed, k + 1)

(* C10: the buffers generateCombinedAudio concatenates are the narration    *)
(* plan (intro, then per item in list order title, chunks in chunk order,   *)
(* transition unless it is the last item, then outro) with the segments of  *)
(* the failed synthesis calls removed and nothing reordered.                *)
C10_NarrationOrder ==
  pc = "assembled" => audioBuffers = Surviving(NarrationPlan(stories), synthFailed, 1)

(* two items, chunked summaries, a failed call in the middle *)
C10_Witness ==
  /\ pc = "assembled"
  /\ Len(stories) = 2
  /\ Len(ChunksOf(stories[1])) = 2
  /\ synthFailed = {3}
  /\ Len(audioBuffers) = Len(NarrationPlan(stories)) - 1
  /\ \E k \in 1..Len(audioBuffers) : audioBuffers[k].kind = "transition"

(* ---------------------------------------------------------------------- *)
(* Claims about the items of one run (checked under SpecRun)                *)
(* ---------------------------------------------------------------------- *)
Completed == pc = "done" /\ response.statusCode = 200

ResultItems == response.result.data.stories

(* the records saveDailyRecommendations has put for item i of this run *)
ItemRecords(table, i) == {r \in table : r.id = <<stories[i].source, i - 1, runs>>}

(* C11: an item whose summarization call failed has, at the end of the run, *)
(* no summary and no audioUrl in the run result, and none in its persisted  *)
(* record (where an absent field is stored as the empty string).            *)
C11_FailedSummaryIsAbsent ==
  Completed =>
    \A i \in 1..Len(failures) :
       failures[i] = "summarize" =>
          /\ ResultItems[i].summary = UNDEFINED
          /\ ResultItems[i].audioUrl = UNDEFINED
          /\ \A r \in ItemRecords(store, i) : r.summary = <<>> /\ r.audioUrl = <<>>

InputTitle(i) ==
  IF i <= Len(topStories) THEN topStories[i].title
  ELSE trendingRepos[i - Len(topStories)].full_name

(* what an item looks like given the step of its own enrichment that failed *)
OwnOutcome(item, title, d, failure) ==
  /\ item.title = title
  /\ failure \in {"none", "extract", "summarize", "audio"}
  /\ failure = "extract" => item.summary = UNDEFINED /\ item.audioUrl = UNDEFINED
  /\ failure = "summarize" => ~HasUsableSummary(item) /\ item.audioUrl = UNDEFINED
  /\ failure = "audio" => HasUsableSummary(item) /\ item.audioUrl = UNDEFINED
  /\ failure = "none" =>
        HasUsableSummary(item) /\ item.audioUrl = <<"audio", d, titleSlug(title)>>

C12_Step ==
  /\ (pc = "processing" /\ idx' = idx + 1) =>
        /\ Len(stories') = idx'
        /\ SubSeq(stories', 1, idx) = stories
        /\ SubSeq(failures', 1, idx) = failures
        /\ OwnOutcome(stories'[idx'], InputTitle(idx'), date, failures'[idx'])
  /\ (pc \in {"processing", "persisting", "sending"} /\ idx' = idx) => stories' = stories
  /\ (pc = "processing" /\ pc' # "processing") => idx = Fetched
  /\ (pc = "sending" /\ pc' = "done") => response'.result.data.stories = stories

(* C12: processing an item leaves the items processed before it as they     *)
(* are, its own summary and audioUrl are decided by its own title and by    *)
(* the step of its own enrichment that failed (so they are what they are in *)
(* the run where a sibling's failure does not happen), every fetched item   *)
(* is processed before the run goes on, and no later step changes an item.  *)
C12_SiblingsUnaffected == [][C12_Step]_vars

(* the first item lost its summary, the second has summary and audio *)
C12_Witness ==
  /\ Completed
  /\ Len(failures) = 2
  /\ failures[1] \in {"extract", "summarize"}
  /\ failures[2] = "none"
  /\ ResultItems[2].audioUrl # UNDEFINED
  /\ HasUsableSummary(ResultItems[2])

(* ---------------------------------------------------------------------- *)
(* Claims about the combined track of one run (checked under SpecRun)       *)
(* ---------------------------------------------------------------------- *)
IsCombinedSegment(seg) == seg.kind # "item"

(* what the run asked the synthesizer for the combined track *)
CombinedRequests == SelectSeq(synthRequests, IsCombinedSegment)

(* the items whose summarization produced a summary, in result order *)
RECURSIVE Summarized(_)
Summarized(k) ==
  IF k > Len(stories) THEN <<>>
  ELSE (IF failures[k] \in {"none", "audio"} THEN <<stories[k]>> ELSE <<>>)
         \o Summarized(k + 1)

AfterAssembly == pc \in {"persisting", "sending"} \/ Completed

(* C13: once the combined track has been built, the requests made for it    *)
(* are the narration plan (intro, per item title line, chunks, transition   *)
(* unless last, outro) of exactly the items that got a summary, in result   *)
(* order, and the buffers concatenated are that plan without the failed     *)
(* calls; when no item got a summary nothing is narrated.                   *)
C13_NarratesSummarizedItems ==
  AfterAssembly =>
    IF Summarized(1) = <<>>
    THEN CombinedRequests = <<>> /\ audioBuffers = <<>>
    ELSE /\ CombinedRequests = NarrationPlan(Summarized(1))
         /\ audioBuffers = Surviving(NarrationPlan(Summarized(1)), synthFailed, 1)

(* the first of two items lost its summary: the track has one title line,   *)
(* the one of the second item, and no transition line                       *)
C13_Witness ==
  /\ Completed
  /\ Len(stories) = 2
  /\ failures[1] = "summarize"
  /\ Len(CombinedRequests) >= 4
  /\ CombinedRequests[2].kind = "title"
  /\ CombinedRequests[2].text = stories[2].title
  /\ \A k \in 1..Len(CombinedRequests) : CombinedRequests[k].kind # "transition"

Assembled == pc \in {"persisting", "sending"} \/ (pc = "done" /\ mailResult # "none")

(* the keys of combined tracks: audio/<date>/daily-digest-<now>.mp3 *)
CombinedKeys(keys) == {k \in keys : Len(k) = 4}

AllCombinedSynthesisFailed == synthFailed = 1..Len(CombinedRequests)

(* C14: when every synthesis call made for the combined track gave no audio *)
(* (whatever the per-item calls did), no buffer is concatenated, no         *)
(* combined object is written, combinedAudioUrl is absent from the result   *)
(* and from the DigestRecord, and the run ends with a success result whose  *)
(* emailSent is true when the mail send succeeded.                          *)
C14_NoAudioNoCombinedTrack ==
  (Assembled /\ AllCombinedSynthesisFailed) =>
     /\ audioBuffers = <<>>
     /\ combinedUpload = "none"
     /\ CombinedKeys(bucket) = {}
     /\ combinedAudioUrl = UNDEFINED
     /\ \A r \in DigestsOf(store, date) :
           "combinedAudioUrl" \in DOMAIN r => r.combinedAudioUrl = <<>>
     /\ pc = "done" =>
           /\ Completed
           /\ response.result.data.combinedAudioUrl = UNDEFINED
           /\ response.result.data.emailSent = (mailResult = "sent")

(* every synthesis call of the run failed, the digest was stored and the    *)
(* mail was sent                                                            *)
C14_Witness ==
  /\ Completed
  /\ Len(stories) = 2
  /\ \A i \in 1..Len(failures) : failures[i] = "audio"
  /\ Len(CombinedRequests) >= 6
  /\ AllCombinedSynthesisFailed
  /\ mailResult = "sent"
  /\ response.result.data.emailSent
  /\ <<date, runs>> \in digestWrites

HasCall(log, op) == \E k \in 1..Len(log) : log[k].op = op

(* the part of the later log that is not in the earlier one *)
NewCalls(before, after) == SubSeq(after, Len(before) + 1, Len(after))

C15_Step ==
  /\ (pc = "processing" /\ combinedUpload' = "failed") =>
        /\ combinedAudioUrl' = UNDEFINED
        /\ stories' = stories
        /\ bucket' = bucket
        /\ pc' = "persisting"
  /\ (pc = "persisting" /\ combinedUpload = "failed") =>
        /\ pc' = "sending"
        /\ SubSeq(calls', 1, Len(calls)) = calls
        /\ \/ HasCall(NewCalls(calls, calls'), "BatchWrite")
           \/ HasCall(NewCalls(calls, calls'), "PutDigest")
        /\ stories' = stories
        /\ combinedAudioUrl' = UNDEFINED
  /\ (pc = "sending" /\ combinedUpload = "failed") =>
        /\ pc' = "done"
        /\ HasCall(NewCalls(calls, calls'), "SendEmail")
        /\ response'.statusCode = 200
        /\ response'.result.data.combinedAudioUrl = UNDEFINED
        /\ response'.result.data.stories = stories
        /\ bucket' = bucket

(* C15: when the put of the combined track fails, combinedAudioUrl stays    *)
(* undefined, the items (and so every audioUrl already set) and the         *)
(* objects already written stay as they were, and the next steps of the run *)
(* are the store write and then the mail send, ending in a success result   *)
(* without combinedAudioUrl.                                                *)
C15_CombinedUploadFailure == [][C15_Step]_vars

C15_Witness ==
  /\ Completed
  /\ combinedUpload = "failed"
  /\ \E i \in 1..Len(stories) :
        /\ ResultItems[i].audioUrl # UNDEFINED
        /\ ResultItems[i].audioUrl \in bucket
  /\ response.result.data.combinedAudioUrl = UNDEFINED
  /\ HasCall(calls, "PutDigest")
  /\ HasCall(calls, "SendEmail")

(* ---------------------------------------------------------------------- *)
(* Claims about the run as a whole (checked under SpecRun)                  *)
(* ---------------------------------------------------------------------- *)
(* no call of the run failed: the two list fetches, the enrichment of every *)
(* item, the synthesis and the put of the combined track, the batch writes  *)
(* and the digest put, the mail send                                        *)
EveryCallSucceeded ==
  /\ sourceFailed = {}
  /\ \A i \in 1..Len(failures) : failures[i] = "none"
  /\ synthFailed = {}
  /\ combinedUpload # "failed"
  /\ <<date, runs>> \in digestWrites
  /\ mailResult = "sent"

AllItemsEnriched ==
  /\ response.result.data.storiesProcessed = Fetched
  /\ Len(ResultItems) = Fetched
  /\ \A i \in 1..Len(ResultItems) :
        /\ ResultItems[i].title = InputTitle(i)
        /\ HasUsableSummary(ResultItems[i])
        /\ ResultItems[i].audioUrl # UNDEFINED
        /\ ResultItems[i].audioUrl \in bucket

(* C16: a run in which no external call failed returns every fetched item   *)
(* with summary and audioUrl set, a combinedAudioUrl, and emailSent true.   *)
C16_AllSucceed ==
  (pc = "done" /\ EveryCallSucceeded) =>
     /\ Completed
     /\ AllItemsEnriched
     /\ response.result.data.combinedAudioUrl # UNDEFINED
     /\ response.result.data.emailSent

(* C16 as amended: a run that fetched at least one item and in which no     *)
(* external call failed returns every fetched item with summary and         *)
(* audioUrl set, a combinedAudioUrl whose object was written, and           *)
(* emailSent true.                                                          *)
C16_AllSucceedWithItems ==
  (pc = "done" /\ EveryCallSucceeded /\ Fetched > 0) =>
     /\ Completed
     /\ AllItemsEnriched
     /\ response.result.data.combinedAudioUrl # UNDEFINED
     /\ response.result.data.combinedAudioUrl \in bucket
     /\ response.result.data.emailSent

C16_Witness ==
  /\ pc = "done"
  /\ EveryCallSucceeded
  /\ Fetched = 2
  /\ Len(ResultItems) = 2
  /\ response.result.data.combinedAudioUrl # UNDEFINED
  /\ response.result.data.emailSent

SaveFailedInStep == pc = "persisting" /\ <<date, runs>> \notin digestWrites'

SaveFailed == pc = "sending" /\ <<date, runs>> \notin digestWrites

TitlesOf(list) == [i \in 1..Len(list) |-> list[i].title]

C17_Step ==
  /\ SaveFailedInStep =>
        /\ pc' = "sending"
        /\ stories' = stories
        /\ combinedAudioUrl' = combinedAudioUrl
        /\ response' = NoResponse
  /\ SaveFailed =>
        /\ pc' = "done"
        /\ Len(NewCalls(calls, calls')) >= 1
        /\ NewCalls(calls, calls')[1] =
             [op |-> "SendEmail", titles |-> TitlesOf(Summarized(1)),
              combinedAudioUrl |-> combinedAudioUrl]
        /\ mailResult' # "none"
        /\ response'.statusCode = 200
        /\ IsSuccessResult(response'.result)
        /\ response'.result.data.stories = stories
        /\ response'.result.data.combinedAudioUrl = combinedAudioUrl

(* C17: when a batch write or the digest put fails, the handler goes on to  *)
(* the mail step with the items and the combinedAudioUrl it had before the  *)
(* store write; the mail is sent for the summarized items and that URL, and *)
(* the run returns the success result.                                      *)
C17_StoreFailureDoesNotStopRun == [][C17_Step]_vars

(* the batch write failed, nothing was stored, the mail went out *)
C17_Witness ==
  /\ Completed
  /\ Len(stories) >= 1
  /\ <<date, runs>> \notin digestWrites
  /\ store = {}
  /\ HasCall(calls, "BatchWrite")
  /\ ~HasCall(calls, "PutDigest")
  /\ mailResult = "sent"
  /\ combinedAudioUrl # UNDEFINED

(* ---------------------------------------------------------------------- *)
(* The trigger (checked under SpecRun). event.source is read at lines 84    *)
(* (a log line), 184, 194 and 221: the two runs that differ in the trigger  *)
(* only share every step up to the construction of the response, so the     *)
(* calls made, the table and the bucket are those of the state; what is     *)
(* left to compare is the response built for each trigger from that state.  *)
(* ---------------------------------------------------------------------- *)
Triggers == {"aws.events", "direct"}

(* the response the run returns when it was started by src *)
ResponseFor(src) ==
  IF mailResult # "none"
  THEN ShapedFor(src, successResultFor(src, emailSent))
  ELSE ShapedFor(src, errorResult)

(* what a response reports, whatever its shape *)
Reported(resp) ==
  IF resp.result.statusCode = 200
  THEN [statusCode |-> resp.statusCode,
        message |-> resp.result.message,
        timestamp |-> resp.result.timestamp,
        storiesProcessed |-> resp.result.data.storiesProcessed,
        stories |-> resp.result.data.stories,
        emailSent |-> resp.result.data.emailSent,
        combinedAudioUrl |-> resp.result.data.combinedAudioUrl]
  ELSE [statusCode |-> resp.statusCode,
        message |-> resp.result.message,
        timestamp |-> resp.result.timestamp,
        error |-> resp.result.error]

ItemSynthRequests == SelectSeq(synthRequests, LAMBDA q : q.kind = "item")

CombinedSynthRequests == SelectSeq(synthRequests, LAMBDA q : q.kind # "item")

(* C19: every request sent to the synthesizer, for the per-item track as    *)
(* well as for the combined track, carries a text no longer than the        *)
(* ceiling, whatever the length of the summary.                             *)
C19_RequestsWithinCeiling ==
  \A k \in 1..Len(synthRequests) : Len(synthRequests[k].text) <= PollyLimit

(* the part of C19 that generateSingleAudioBuffer secures: the requests of  *)
(* the combined track stay within the ceiling                               *)
CombinedRequestsWithinCeiling ==
  \A k \in 1..Len(CombinedSynthRequests) : Len(CombinedSynthRequests[k].text) <= PollyLimit

(* a combined-track request that was cut at TruncateAt *)
TruncationHappened ==
  \E k \in 1..Len(CombinedSynthRequests) : Len(CombinedSynthRequests[k].text) = TruncateAt + 3

(* ---------------------------------------------------------------------- *)
(* The stages of a run (checked under SpecRun)                              *)
(* ---------------------------------------------------------------------- *)
(* the stage a run is in; ASSEMBLING_AUDIO is the single step that takes    *)
(* the run from PROCESSING_ITEMS to PERSISTING                              *)
StageOf(p, resp) ==
  CASE p \in {"fetchHN", "fetchGH"} -> "FETCHING"
    [] p = "processing" -> "PROCESSING_ITEMS"
    [] p = "persisting" -> "PERSISTING"
    [] p = "sending" -> "RENDERING_AND_SENDING"
    [] p = "done" -> (IF resp.statusCode = 200 THEN "DONE" ELSE "FAILED")
    [] OTHER -> "NOT_STARTED"

Stage == StageOf(pc, response)

StageOrder ==
  {<<"NOT_STARTED", "FETCHING">>,
   <<"FETCHING", "FETCHING">>,
   <<"FETCHING", "PROCESSING_ITEMS">>,
   <<"PROCESSING_ITEMS", "PROCESSING_ITEMS">>,
   <<"PROCESSING_ITEMS", "PERSISTING">>,
   <<"PERSISTING", "RENDERING_AND_SENDING">>,
   <<"RENDERING_AND_SENDING", "DONE">>,
   <<"FETCHING", "FAILED">>}

IsAssemblingStep == pc = "processing" /\ pc' = "persisting"

MailBeforeDigest(log) ==
  \E i \in 1..Len(log), j \in 1..Len(log) :
     i < j /\ log[i].op = "SendEmail" /\ log[j].op \in {"BatchWrite", "PutDigest"}

C20_Step ==
  /\ <<Stage, Stage'>> \in StageOrder
  \* no item is enriched before both fetches returned
  /\ Stage' = "FETCHING" => stories' = <<>> /\ failures' = <<>> /\ synthRequests' = <<>>
  /\ (pc # "idle" /\ (stories' # stories \/ failures' # failures)) =>
        /\ Stage = "PROCESSING_ITEMS" /\ Stage' = "PROCESSING_ITEMS"
        /\ topStories' = topStories /\ trendingRepos' = trendingRepos
  \* the combined track is built after the last item was processed
  /\ IsAssemblingStep =>
        /\ Len(failures) = Fetched
        /\ failures' = failures /\ stories' = stories
  /\ (pc # "idle" /\ (combinedAudioUrl' # combinedAudioUrl \/ CombinedRequests' # CombinedRequests)) =>
        IsAssemblingStep
  \* the store is written in PERSISTING, the mail is sent after it
  /\ (HasCall(NewCalls(calls, calls'), "BatchWrite") \/ HasCall(NewCalls(calls, calls'), "PutDigest")) =>
        Stage = "PERSISTING"
  /\ HasCall(NewCalls(calls, calls'), "SendEmail") => Stage = "RENDERING_AND_SENDING"
  /\ ~MailBeforeDigest(calls')
  \* FAILED only from an exception that reached the top level
  /\ Stage' = "FAILED" =>
        /\ sourceFailed' # sourceFailed
        /\ response'.result = errorResult
  /\ Stage' = "DONE" => mailResult' # "none"

(* C20: every step of a run moves along FETCHING, PROCESSING_ITEMS,         *)
(* (the assembling step), PERSISTING, RENDERING_AND_SENDING, DONE: items    *)
(* are enriched only after both fetches returned, the combined track is     *)
(* built in one step after the last item was processed, the store writes    *)
(* (the digest write included) come before the mail send, and FAILED is     *)
(* entered only from FETCHING, by the exception of a source that failed.    *)
C20_StagesInOrder == [][C20_Step]_vars

C20_Witness ==
  /\ Stage = "DONE"
  /\ Len(failures) = 2
  /\ CombinedRequests # <<>>
  /\ Len(calls) >= 3
  /\ \E i \in 1..Len(calls), j \in 1..Len(calls) :
        i < j /\ calls[i].op = "PutDigest" /\ calls[j].op = "SendEmail"

(* ---------------------------------------------------------------------- *)
(* The Hacker News fetcher (checked under SpecFetch)                        *)
(* ---------------------------------------------------------------------- *)
(* an entry qualifies when it is a story and has a url; an id whose fetch   *)
(* fails is skipped                                                         *)
QualifyingRanks ==
  {r \in 1..Len(topStoriesData) :
     r \notin failedIds /\ topStoriesData[r].type = "story" /\ topStoriesData[r].hasUrl}

RECURSIVE QualifyingFrom(_)
QualifyingFrom(r) ==
  IF r > Len(topStoriesData) THEN <<>>
  ELSE (IF r \in QualifyingRanks THEN <<topStoriesData[r]>> ELSE <<>>) \o QualifyingFrom(r + 1)

(* C21: getTopHackerNewsStories(N) returns, in rank order, the first         *)
(* min(N, Q) qualifying entries of the ranked list, Q being the number of   *)
(* qualifying entries of the whole list.                                    *)
C21_FirstQualifyingEntries ==
  pc = "fetched" =>
     topStories = SubSeq(QualifyingFrom(1), 1, Min(hnLimit, Cardinality(QualifyingRanks)))

(* what the function does return: the qualifying entries among the first N  *)
(* ranks                                                                    *)
QualifyingAmongFirstRanks ==
  pc = "fetched" =>
     topStories = SelectSeq(SubSeq(topStoriesData, 1, Min(hnLimit, Len(topStoriesData))),
                            LAMBDA e : e.id \in QualifyingRanks)

(* ---------------------------------------------------------------------- *)
(* Summary and per-item synthesis (checked under SpecRun)                   *)
(* ---------------------------------------------------------------------- *)
(* generateAudio was called for the item at position i of the run *)
AudioAttempted(i) ==
  \E k \in 1..Len(synthRequests) :
     synthRequests[k].kind = "item" /\ synthRequests[k].index = i

(* C22: at the end of a run, every item whose summary field is present had  *)
(* a synthesis of its per-item audio attempted, whether or not the attempt  *)
(* produced an audioUrl.                                                    *)
C22_SummaryImpliesAudioAttempt ==
  Completed =>
     \A i \in 1..Len(ResultItems) :
        ResultItems[i].summary # UNDEFINED => AudioAttempted(i)

(* the implication the code secures: a usable summary had its synthesis     *)
(* attempted                                                                *)
UsableSummaryImpliesAudioAttempt ==
  Completed =>
     \A i \in 1..Len(ResultItems) :
        HasUsableSummary(ResultItems[i]) => AudioAttempted(i)

(* ---------------------------------------------------------------------- *)
(* The conditional emailSent update (checked under SpecRun)                 *)
(* ---------------------------------------------------------------------- *)
DigestRecords(table, d) == {r \in table : r.id = <<"digest", d>>}

C23_Step ==
  (pc = "sending" /\ DigestRecords(store, date) = {} /\ mailResult' = "sent") =>
     /\ HasCall(NewCalls(calls, calls'), "UpdateDigest")
     /\ DigestRecords(store', date) = {}
     /\ store' = store
     /\ emailSent'
     /\ response'.statusCode = 200
     /\ response'.result.data.emailSent

(* C23: the emailSent update requires the DigestRecord to exist: when the   *)
(* store write of the run failed and there is no DigestRecord for the date, *)
(* a successful mail send is followed by the update, which creates no       *)
(* record and changes nothing in the table, and the run still reports the   *)
(* mail as sent.                                                            *)
C23_UpdateNeedsExistingRecord == [][C23_Step]_vars

C23_Witness ==
  /\ Completed
  /\ <<date, runs>> \notin digestWrites
  /\ DigestRecords(store, date) = {}
  /\ mailResult = "sent"
  /\ calls[Len(calls)] = UpdateDigestCall(date)
  /\ response.result.data.emailSent

(* ---------------------------------------------------------------------- *)
(* The batches of saveDailyRecommendations (checked under SpecSave)         *)
(* ---------------------------------------------------------------------- *)
IsBatchWrite(c) == c.op = "BatchWrite"

BatchWrites == SelectSeq(calls, IsBatchWrite)

RECURSIVE WrittenIds(_)
WrittenIds(k) ==
  IF k > Len(BatchWrites) THEN <<>> ELSE BatchWrites[k].ids \o WrittenIds(k + 1)

ItemIds == [i \in 1..Len(stories) |-> <<stories[i].source, i - 1, runs>>]

PositionOf(log, op) == CHOOSE k \in 1..Len(log) : log[k].op = op

Saved == pc \in {"sending", "done"}

(* C24: the item records are written in batches of at most BatchSize        *)
(* records, submitted one after the other in list order; the batches        *)
(* submitted hold the items in order with none missing or repeated (all of  *)
(* them once the digest put is reached, a prefix when a batch failed), and  *)
(* the DigestRecord put comes after the last batch.                         *)
C24_BatchesInOrder ==
  Saved =>
     /\ \A k \in 1..Len(BatchWrites) :
           /\ BatchWrites[k].batch = k
           /\ Len(BatchWrites[k].ids) >= 1
           /\ Len(BatchWrites[k].ids) <= BatchSize
           /\ k < Len(BatchWrites) => Len(BatchWrites[k].ids) = BatchSize
     /\ Len(WrittenIds(1)) <= Len(ItemIds)
     /\ WrittenIds(1) = SubSeq(ItemIds, 1, Len(WrittenIds(1)))
     /\ HasCall(calls, "PutDigest") =>
           /\ WrittenIds(1) = ItemIds
           /\ \A k \in 1..Len(calls) :
                 calls[k].op = "BatchWrite" => k < PositionOf(calls, "PutDigest")
           /\ PositionOf(calls, "PutDigest") = Len(BatchWrites) + 1

C24_Witness ==
  /\ pc = "sending"
  /\ Len(stories) = 2 * BatchSize + 1
  /\ Len(BatchWrites) = 3
  /\ Len(BatchWrites[3].ids) = 1
  /\ Len(calls) = 4
  /\ calls[4].op = "PutDigest"
  /\ <<date, runs>> \in digestWrites

(* ---------------------------------------------------------------------- *)
(* The article extractor (checked under SpecArticle)                        *)
(* ---------------------------------------------------------------------- *)
Extracted == pc \in {"extracted", "extractThrew"}

(* C25 as stated: the function never returns more than the budget of        *)
(* characters, and returns the sentinel instead of throwing.                *)
C25_ContentWithinBudget ==
  Extracted =>
     /\ pc = "extracted"
     /\ failures = <<"extract">> => articleContent = UNABLE_TO_FETCH
     /\ failures = <<"none">> => Len(articleContent) <= ContentLimit

(* C25, amended: the function never returns more than the budget of         *)
(* characters of extracted text, followed by "..." when the text was cut    *)
(* (the budget plus three characters in all), and returns the sentinel      *)
(* instead of throwing.                                                     *)
C25_ContentWithinBudgetPlusEllipsis ==
  Extracted =>
     /\ pc = "extracted"
     /\ failures = <<"extract">> => articleContent = UNABLE_TO_FETCH
     /\ failures = <<"none">> =>
          IF Len(textContent(page)) <= ContentLimit
          THEN articleContent = textContent(page)
          ELSE /\ Len(articleContent) = ContentLimit + 3
               /\ SubSeq(articleContent, 1, ContentLimit) = SubSeq(textContent(page), 1, ContentLimit)
               /\ SubSeq(articleContent, ContentLimit + 1, ContentLimit + 3) = ELLIPSIS

C25_Witness ==
  /\ pc = "extracted"
  /\ failures = <<"none">>
  /\ Len(textContent(page)) > ContentLimit
  /\ SCRIPT \in {page[i] : i \in 1..Len(page)}
  /\ Len(articleContent) = ContentLimit + 3

(* ---------------------------------------------------------------------- *)
(* What the mail lists (checked under SpecSave)                             *)
(* ---------------------------------------------------------------------- *)
(* the items of a list whose summary is present and is not the sentinel *)
RECURSIVE WithUsableSummary(_)
WithUsableSummary(list) ==
  IF list = <<>> THEN <<>>
  ELSE (IF Head(list).summary \notin {UNDEFINED, <<>>, SUMMARY_UNAVAILABLE}
        THEN <<Head(list)>> ELSE <<>>) \o WithUsableSummary(Tail(list))

MailCall == calls[PositionOf(calls, "SendEmail")]

(* C26: the mail lists exactly the items with a usable summary, in result   *)
(* order, in its HTML and in its text body, and the story count it shows is *)
(* their number; the other items are in the result, counted there, and      *)
(* written to the store when the store write succeeded.                     *)
C26_MailListsSummarizedItems ==
  Completed =>
     /\ ResultItems = stories
     /\ response.result.data.storiesProcessed = Len(stories)
     /\ MailCall.titles = TitlesOf(WithUsableSummary(ResultItems))
     /\ TitlesOf(generateEmailHTML(newsletterData).sections) = MailCall.titles
     /\ TitlesOf(generateEmailText(newsletterData).sections) = MailCall.titles
     /\ \A i \in 1..Len(MailCall.titles) :
           generateEmailHTML(newsletterData).sections[i].summary
             = WithUsableSummary(ResultItems)[i].summary
     /\ generateEmailHTML(newsletterData).storyCount = Len(WithUsableSummary(ResultItems))
     /\ generateEmailText(newsletterData).storyCount = Len(WithUsableSummary(ResultItems))
     /\ <<date, runs>> \in digestWrites =>
           \A i \in 1..Len(ResultItems) : ItemRecords(store, i) # {}

C26_Witness ==
  /\ Completed
  /\ Len(ResultItems) = 3
  /\ ResultItems[1].summary = SUMMARY_UNAVAILABLE
  /\ ResultItems[2].summary = UNDEFINED
  /\ MailCall.titles = <<ResultItems[3].title>>
  /\ generateEmailHTML(newsletterData).storyCount = 1
  /\ response.result.data.storiesProcessed = 3
  /\ \A i \in 1..3 : ItemRecords(store, i) # {}

(* ---------------------------------------------------------------------- *)
(* The error result (checked under SpecRun, where the run starts from an    *)
(* empty table and an empty bucket)                                         *)
(* ---------------------------------------------------------------------- *)
EndedWithError == pc = "done" /\ response.statusCode = 500

(* C27: a run that ends with the error result has written nothing to the   *)
(* table, nothing to the bucket and has sent no mail: it failed in the      *)
(* fetch stage, before any item was enriched.                               *)
C27_ErrorResultMeansNoEffect ==
  EndedWithError =>
     /\ store = {}
     /\ bucket = {}
     /\ calls = <<>>
     /\ synthRequests = <<>>
     /\ mailResult = "none"
     /\ ~emailSent
     /\ stories = <<>>
     /\ failures = <<>>
     /\ sourceFailed # {}

C27_Witness ==
  /\ EndedWithError
  /\ sourceFailed = {"hacker-news"}
  /\ response.result = errorResult
  /\ store = {}
  /\ bucket = {}

(* ---------------------------------------------------------------------- *)
(* A failed batch write (checked under SpecSave)                            *)
(* ---------------------------------------------------------------------- *)
(* the ids of the item records of this run that are in the table *)
StoredItemIds == {r.id : r \in {q \in store : Len(q.id) = 3}}

IdsOfBatches(n) == {ItemIds[i] : i \in 1..Min(n * BatchSize, Len(ItemIds))}

(* the batch write that failed: the last one submitted, when the digest put *)
(* was not reached                                                          *)
BatchFailed == Saved /\ ~HasCall(calls, "PutDigest")

(* C28: the DigestRecord is written only when every item batch was written: *)
(* when a batch write fails, no later batch and no digest put is attempted, *)
(* there is no DigestRecord, and the records of the batches written before  *)
(* stay in the table.                                                       *)
C28_DigestOnlyAfterAllBatches ==
  Saved =>
     /\ DigestRecords(store, date) # {} =>
           /\ Len(BatchWrites) = NumBatches(Len(stories))
           /\ StoredItemIds = {ItemIds[i] : i \in 1..Len(ItemIds)}
     /\ BatchFailed =>
           /\ Len(BatchWrites) >= 1
           /\ Len(BatchWrites) <= NumBatches(Len(stories))
           /\ \A k \in 1..Len(calls) : pc = "sending" => calls[k].op = "BatchWrite"
           /\ DigestRecords(store, date) = {}
           /\ <<date, runs>> \notin digestWrites
           /\ StoredItemIds = IdsOfBatches(Len(BatchWrites) - 1)

C28_Witness ==
  /\ pc = "sending"
  /\ BatchFailed
  /\ Len(stories) = 2 * BatchSize + 1
  /\ Len(BatchWrites) = 2
  /\ Cardinality(StoredItemIds) = BatchSize
  /\ DigestRecords(store, date) = {}

(* ---------------------------------------------------------------------- *)
(* The emailSent flag of the result (checked under SpecSave)                *)
(* ---------------------------------------------------------------------- *)
(* the stored DigestRecord of the date says the mail was sent *)
StoredEmailSent == \E r \in DigestRecords(store, date) : r.emailSent

(* C29: the emailSent flag of the result is true exactly when the mail send *)
(* call succeeded, whatever happened to the store.                          *)
C29_EmailSentIffMailSucceeded ==
  Completed =>
     /\ response.result.data.emailSent = (mailResult = "sent")
     /\ response.result.data.emailSent = emailSent
     /\ HasCall(calls, "SendEmail")
     /\ StoredEmailSent => response.result.data.emailSent

(* the flag is true although the DigestRecord was never written *)
C29_Witness ==
  /\ Completed
  /\ response.result.data.emailSent
  /\ Len(stories) >= 1
  /\ DigestRecords(store, date) = {}
  /\ ~StoredEmailSent

(* the flag is true although the DigestRecord exists and its update failed *)
SentButRecordNotMarked ==
  /\ Completed
  /\ response.result.data.emailSent
  /\ DigestRecords(store, date) # {}
  /\ ~StoredEmailSent

(* the flag is false although the store write succeeded *)
NotSentAlthoughStored ==
  /\ Completed
  /\ ~response.result.data.emailSent
  /\ mailResult = "failed"
  /\ DigestRecords(store, date) # {}

(* ---------------------------------------------------------------------- *)
(* The per-item audio keys (checked under SpecItems)                        *)
(* ---------------------------------------------------------------------- *)
(* C30: within one run two different items never get the same per-item      *)
(* audio object key: no two items share an audioUrl.                        *)
C30_AudioKeysDistinct ==
  \A i \in 1..Len(stories), j \in 1..Len(stories) :
     (i # j /\ stories[i].audioUrl # UNDEFINED /\ stories[j].audioUrl # UNDEFINED)
        => stories[i].audioUrl # stories[j].audioUrl

(* the keys are distinct whenever the slugs of the titles are *)
AudioKeysDistinctForDistinctSlugs ==
  \A i \in 1..Len(stories), j \in 1..Len(stories) :
     (i # j /\ stories[i].audioUrl # UNDEFINED /\ stories[j].audioUrl # UNDEFINED
        /\ titleSlug(stories[i].title) # titleSlug(stories[j].title))
        => stories[i].audioUrl # stories[j].audioUrl

====
